---- MODULE Spec2Model ----
\* AgentMarket backend: the payment-gated execution saga of POST /api/chat
\* (src/backend/src/api/chat.ts), the two model invokers (executeAgentWithPrompt
\* in chat.ts, executeAgent in src/backend/src/agent-engine/executor.ts) and the
\* x402 facilitator wrappers (src/backend/README.md, facilitator listing).
EXTENDS Integers, Sequences, FiniteSets, TLC

\* ---------------------------------------------------------------------------
\* Texts.  A JavaScript string is abstracted to its length, its leading word and
\* the set of marker substrings it contains; case is kept, so toLowerCase() is a
\* real conversion.
\* ---------------------------------------------------------------------------

Txt(len, head, has) == [len |-> len, head |-> head, has |-> has]

\* String.prototype.toLowerCase on the marker words that occur in the model.
LowerWord(w) ==
  CASE w = "Error" -> "error"
    [] w = "ERROR" -> "error"
    [] w = "FAILED" -> "failed"
    [] w = "Failed" -> "failed"
    [] w = "Exception:" -> "exception:"
    [] w = "API key" -> "api key"
    [] w = "Quota" -> "quota"
    [] OTHER -> w

toLowerCase(t) == Txt(t.len, LowerWord(t.head), {LowerWord(w) : w \in t.has})

\* text.startsWith(word) and text.includes(word), both case-sensitive as in JS.
startsWith(t, w) == t.head = w
includes(t, w) == w \in t.has \/ t.head = w

\* Model outputs a backend can return (response.text()).
TxtEmpty == Txt(0, "", {})
TxtLen10 == Txt(10, "ok", {})
TxtLen11 == Txt(11, "ok", {})
TxtGood == Txt(500, "The", {})
TxtErrShort == Txt(50, "Error", {})
TxtErrLong == Txt(100, "error", {})
TxtFailed == Txt(30, "FAILED", {})
TxtException == Txt(80, "Uncaught", {"Exception:"})
TxtApiKey == Txt(99, "Your", {"API key"})
TxtMax == Txt(99999, "The", {})
TxtTooLong == Txt(100000, "The", {})

Outputs ==
  {TxtEmpty, TxtLen10, TxtLen11, TxtGood, TxtErrShort, TxtErrLong, TxtFailed,
   TxtException, TxtApiKey, TxtMax, TxtTooLong}

\* Fixed messages the code itself produces.
MsgNoProvider == Txt(91, "AI", {})
MsgDataPolicy == Txt(153, "OpenRouter", {"data policy", "Free model publication"})
MsgNoGeminiKey == Txt(29, "Gemini", {"API key"})
MsgNoResponse == Txt(34, "Failed", {})
MsgNoResponseEngine == Txt(48, "Failed", {})

\* Errors a backend call can throw: message, error.code / error.status, and
\* error.statusCode (0 stands for an absent field).
Err(msg, code, status) == [message |-> msg, code |-> code, statusCode |-> status]

ErrQuota == Err(Txt(40, "You", {"quota"}), 0, 0)
ErrQuotaCaps == Err(Txt(14, "Quota", {}), 0, 0)
Err503 == Err(Txt(60, "[GoogleGenerativeAI", {"503", "overloaded"}), 0, 0)
ErrCode429 == Err(Txt(17, "Too", {}), 429, 0)
ErrFatal == Err(Txt(25, "Invalid", {}), 400, 400)
ErrPolicy == Err(Txt(120, "No", {"data policy", "Free model publication"}), 404, 0)

Errors == {ErrQuota, ErrQuotaCaps, Err503, ErrCode429, ErrFatal, ErrPolicy}

\* One backend call either returns a text or throws an error.
ROk(t) == [ok |-> TRUE, out |-> t, err |-> ErrFatal]
RErr(e) == [ok |-> FALSE, out |-> TxtEmpty, err |-> e]

Responses == {ROk(t) : t \in Outputs} \cup {RErr(e) : e \in Errors}

\* process.env: which provider keys are configured.
Envs == [gemini : BOOLEAN, openRouter : BOOLEAN]

\* ---------------------------------------------------------------------------
\* Model invokers
\* ---------------------------------------------------------------------------

maxRetries == 3
retryDelay == 2000
MinOutputLen == 10
MaxOutputLen == 100000
ErrorLookLen == 100

isValidLengthOff(output) == output.len >= MinOutputLen /\ output.len < MaxOutputLen

isValidLength(output) == output.len > MinOutputLen /\ output.len < MaxOutputLen

looksLikeError(output) ==
  /\ output.len < ErrorLookLen
  /\ \/ startsWith(toLowerCase(output), "error")
     \/ startsWith(toLowerCase(output), "failed")
     \/ includes(toLowerCase(output), "exception:")
     \/ includes(toLowerCase(output), "api key")

\* The validation both invokers apply to a returned text.
validateOutput(output) == isValidLength(output) /\ ~looksLikeError(output)

MessageRetryable(m) ==
  \/ includes(m, "503")
  \/ includes(m, "429")
  \/ includes(m, "500")
  \/ includes(m, "overloaded")
  \/ includes(m, "quota")
  \/ includes(m, "rate limit")

isRetryableAlways(e) == TRUE

\* chat.ts also looks at error.code / error.status and error.statusCode.
isRetryable(e) ==
  \/ MessageRetryable(e.message)
  \/ e.code = 503
  \/ e.code = 429
  \/ e.statusCode = 503
  \/ e.statusCode = 429

\* executor.ts looks at the message only.
isRetryableEngine(e) == MessageRetryable(e.message)

\* An invoker's outcome: it returns {output, success} or throws (output then holds
\* the thrown error's message).  calls lists every backend call made: the
\* provider and the delay slept before it.
Returned(output, success, calls) ==
  [kind |-> "return", output |-> output, success |-> success, calls |-> calls]
Thrown(message, calls) ==
  [kind |-> "throw", output |-> message, success |-> FALSE, calls |-> calls]

Call(provider, attempt) ==
  [provider |-> provider, delay |-> IF attempt > 1 THEN retryDelay * attempt ELSE 0]

\* After the retry loop of either invoker: an empty output throws (the last
\* error if there was one), any other output is validated.
AfterLoop(output, hadError, lastError, calls, fallbackMsg) ==
  IF output.len = 0
  THEN Thrown(IF hadError THEN lastError.message ELSE fallbackMsg, calls)
  ELSE Returned(output, validateOutput(output), calls)

\* chat.ts line 457: when the invoker moves from Gemini to OpenRouter.
shouldSwitchAnyAttempt(useOpenRouter, e, env, attempt) ==
  ~useOpenRouter /\ includes(e.message, "quota") /\ env.openRouter

shouldSwitch(useOpenRouter, e, env, attempt) ==
  ~useOpenRouter /\ includes(e.message, "quota") /\ env.openRouter /\ attempt = 1

RECURSIVE PromptLoop(_, _, _, _, _, _, _)
PromptLoop(env, script, attempt, useOpenRouter, hadError, lastError, calls) ==
  IF attempt > maxRetries
  THEN AfterLoop(TxtEmpty, hadError, lastError, calls, MsgNoResponse)
  ELSE
    LET r == script[attempt]
        made == Append(calls, Call(IF useOpenRouter THEN "openrouter" ELSE "gemini", attempt))
    IN IF r.ok
       THEN AfterLoop(r.out, hadError, lastError, made, MsgNoResponse)
       ELSE
         IF shouldSwitch(useOpenRouter, r.err, env, attempt)
         THEN PromptLoop(env, script, attempt + 1, TRUE, TRUE, r.err, made)
         ELSE IF /\ useOpenRouter
                 /\ includes(r.err.message, "data policy")
                 /\ includes(r.err.message, "Free model publication")
         THEN Returned(MsgDataPolicy, FALSE, made)
         ELSE IF isRetryable(r.err) /\ attempt < maxRetries
         THEN PromptLoop(env, script, attempt + 1, useOpenRouter, TRUE, r.err, made)
         ELSE Thrown(r.err.message, made)

executeAgentWithPrompt(env, script) ==
  IF env.gemini THEN PromptLoop(env, script, 1, FALSE, FALSE, ErrFatal, <<>>)
  ELSE IF env.openRouter THEN PromptLoop(env, script, 1, TRUE, FALSE, ErrFatal, <<>>)
  ELSE Returned(MsgNoProvider, FALSE, <<>>)

RECURSIVE EngineLoop(_, _, _, _, _)
EngineLoop(script, attempt, hadError, lastError, calls) ==
  IF attempt > maxRetries
  THEN AfterLoop(TxtEmpty, hadError, lastError, calls, MsgNoResponseEngine)
  ELSE
    LET r == script[attempt]
        made == Append(calls, Call("gemini", attempt))
    IN IF r.ok
       THEN AfterLoop(r.out, hadError, lastError, made, MsgNoResponseEngine)
       ELSE IF isRetryableEngine(r.err) /\ attempt < maxRetries
       THEN EngineLoop(script, attempt + 1, TRUE, r.err, made)
       ELSE Thrown(r.err.message, made)

\* executeAgent wraps everything in try/catch: a throw becomes a failed result.
CatchEngineError(res) ==
  IF res.kind = "throw" THEN Returned(res.output, FALSE, res.calls) ELSE res

executeAgent(env, script) ==
  IF ~env.gemini THEN Returned(MsgNoGeminiKey, FALSE, <<>>)
  ELSE CatchEngineError(EngineLoop(script, 1, FALSE, ErrFatal, <<>>))

\* ---------------------------------------------------------------------------
\* Payment proof and payment hash (chat.ts, lines 38-109)
\* ---------------------------------------------------------------------------

NoValue == "none"

\* x-payment header values: absent, malformed, a token whose decoded payload
\* carries its own hash field, and a token whose payload carries none.
Headers == {NoValue, "bad", "tokA", "tokB"}
ValidHeaders == {"tokA", "tokB"}

\* req.body.paymentHash: absent, or a 0x-prefixed value.
BodyHashes == {NoValue, "0xB1"}

\* decodePaymentSignatureHeader: throws on a malformed token.
DecodeThrows(header) == header = "bad"
decodePaymentSignatureHeader(header) ==
  [hash |-> IF header = "tokA" THEN "0xPA" ELSE NoValue]

\* ethers.keccak256(ethers.toUtf8Bytes(header)): injective on the headers used.
keccak256(header) ==
  CASE header = "tokA" -> "0xKA"
    [] header = "tokB" -> "0xKB"
    [] OTHER -> "0xK0"

\* paymentHash.startsWith("0x")
HasHexPrefix(h) == h \in {"0xB1", "0xB2", "0xPA", "0xKA", "0xKB", "0xK0"}

PaymentHashes == {"0xB1", "0xPA", "0xKA", "0xKB"}


paymentHashDerivedOnly(bodyHash, payload, header) ==
  IF payload.hash # NoValue THEN payload.hash ELSE keccak256(header)

paymentHashBytes32(bodyHash, payload, header) ==
  IF bodyHash # NoValue /\ HasHexPrefix(bodyHash) THEN bodyHash
  ELSE IF payload.hash # NoValue THEN payload.hash
  ELSE keccak256(header)

\* ---------------------------------------------------------------------------
\* State
\* ---------------------------------------------------------------------------

\* Number of saga instances (requests) that can be in flight together.
NumSagas == 2
Sagas == 1 .. NumSagas

\* Number of failures injected into one run: a faulting external call (registry,
\* ledger, facilitator, release) or a throwing ActivityLog write.  Failures of
\* the model backend come from the scripts and are not counted.
MaxFaults == 1

NullAddress == "0x0000000000000000000000000000000000000000"
UNIFIED_AGENT_ID == 1

VARIABLES
  \* model invokers on their own
  invEnv, invScript, promptRes, engineRes,
  \* one saga instance per request
  pc, req, payHash, execId, result, resp, calls,
  \* ExecutionLedger and agent registry (external contract)
  agentDeveloper, usedHashes, ledgerExecs, totalExecutions, successfulExecutions,
  \* ActivityLog (lib/database)
  dbPayments, dbExecutions,
  \* failures injected so far
  faults,
  \* one application of a tool function: which one, to what, and its outcome
  toolOp, toolWorld, toolClient, chainRes, marketRes, augRes,
  \* the x402 facilitator module: its cached resource server and the last call
  facServer, facOp, facIn, facRes, facAmount, caller,
  \* the rate limiter: the shared counter table, the clock, the requests passed
  \* by each limiter since a client's entry was created, the last answer, and
  \* the table as it would be had the sweep never run
  store, now, passed, limited, unswept,
  \* one application of a validation function: which one, to what input and
  \* maxLength, and what it answered
  valOp, valInput, valMax, valRes

invVars == <<invEnv, invScript, promptRes, engineRes>>
sagaVars == <<pc, req, payHash, execId, result, resp, calls>>
ledgerVars == <<agentDeveloper, usedHashes, ledgerExecs, totalExecutions, successfulExecutions>>
dbVars == <<dbPayments, dbExecutions>>
toolVars == <<toolOp, toolWorld, toolClient, chainRes, marketRes, augRes>>
facVars == <<facServer, facOp, facIn, facRes, facAmount, caller>>
rateVars == <<store, now, passed, limited, unswept>>
valVars == <<valOp, valInput, valMax, valRes>>
vars == <<invVars, sagaVars, ledgerVars, dbVars, faults, toolVars, facVars, rateVars, valVars>>

\* Execution ids the ledger hands out; 0 stands for null.
ExecIds == 1 .. NumSagas

NoExec ==
  [opened |-> FALSE, paymentHash |-> NoValue, completeCalls |-> 0, closed |-> FALSE,
   success |-> FALSE, output |-> TxtEmpty, argOutput |-> TxtEmpty, argSuccess |-> FALSE]

\* An ActivityLog execution record (absent until addExecution stores it).
NoExecRecord == [present |-> FALSE, success |-> FALSE, verified |-> FALSE]

NoResult == [kind |-> "none", output |-> TxtEmpty, success |-> FALSE, calls |-> <<>>]
NoRequest == [header |-> NoValue, bodyHash |-> NoValue, hasInput |-> FALSE]
NoResponse == [status |-> 0, success |-> FALSE, executionId |-> 0]

\* The requests a saga is run on: one without input, and with input every
\* combination of header and body paymentHash the handler tells apart.
Requests ==
  {NoRequest} \cup [header : Headers, bodyHash : BodyHashes, hasInput : {TRUE}]

InitInvokerIdle ==
  /\ invEnv = [gemini |-> TRUE, openRouter |-> FALSE]
  /\ invScript = [i \in 1 .. maxRetries |-> ROk(TxtGood)]
  /\ promptRes = NoResult
  /\ engineRes = NoResult

InitSagaIdle ==
  /\ pc = [r \in Sagas |-> "idle"]
  /\ req = [r \in Sagas |-> NoRequest]
  /\ payHash = [r \in Sagas |-> NoValue]
  /\ execId = [r \in Sagas |-> 0]
  /\ result = [r \in Sagas |-> NoResult]
  /\ resp = [r \in Sagas |-> NoResponse]
  /\ calls = [r \in Sagas |-> <<>>]
  /\ usedHashes = {}
  /\ ledgerExecs = [id \in ExecIds |-> NoExec]
  /\ totalExecutions = 0
  /\ successfulExecutions = 0
  /\ dbPayments = [h \in PaymentHashes |-> "absent"]
  /\ dbExecutions = [id \in {0} \cup ExecIds |-> NoExecRecord]
  /\ faults = 0

\* The outcome of a tool function: what it returned or the error it threw, with
\* the tiers it entered on the way ("sdk" queryBlockchainDirectly, "agent"
\* client.agent.generateQuery, "rpc" queryBlockchainViaRPC).
ToolReturned(text, tiers) ==
  [kind |-> "return", text |-> text, error |-> FALSE, tiers |-> tiers]
ToolThrown(message, tiers) ==
  [kind |-> "throw", text |-> message, error |-> TRUE, tiers |-> tiers]
NoToolResult == [kind |-> "none", text |-> TxtEmpty, error |-> FALSE, tiers |-> <<>>]

NoAugmentation ==
  [escaped |-> FALSE, marketContext |-> FALSE, chainContext |-> FALSE, chain |-> NoToolResult]

IdleWorld ==
  [asksPrice |-> FALSE, hasAddress |-> FALSE, aboutBalance |-> FALSE, chainWord |-> FALSE,
   sdkInstalled |-> TRUE, platformKey |-> TRUE, explorerKey |-> TRUE, modelKey |-> TRUE,
   clientShape |-> "valid", wallet |-> "balance", agent |-> "text", rpc |-> "balance",
   market |-> "ticker"]


\* The facilitator module before any call: no resource server yet
\* (resourceServer = null, initializationPromise = null, serverInitialized =
\* false) and nothing returned.

\* ---------------------------------------------------------------------------
\* Rate limiting (middleware/rateLimit.ts)
\* ---------------------------------------------------------------------------

\* The limiters created with createRateLimit; they all use the one module-level
\* store.  Limits and window are scaled down (the code has max 10, 20 and 100
\* per 60000 ms).
Limiters == {"agentExecutionRateLimit", "chatRateLimit"}
AgentExecutionMax == 1
ChatMax == 2
max(limiter) == IF limiter = "chatRateLimit" THEN ChatMax ELSE AgentExecutionMax
windowMs == 2

\* Clock values the runs go through, and requests made in one run.
MaxNow == 4
MaxRequests == 3

\* A request as getClientId sees it: the payment header (absent, base64 JSON
\* with payload.from in either case, base64 JSON without it, or not decodable)
\* and the address Express reports (req.ip).
RateHeaders == {NoValue, "from:0xAB", "from:0xab", "nofrom", "garbage"}
Ips == {"10.0.0.1"}
RateRequests == [header : RateHeaders, ip : Ips]

\* JSON.parse(Buffer.from(header, "base64")).payload?.from; "throws" when the
\* header does not decode to JSON.
payloadFrom(header) ==
  CASE header = "from:0xAB" -> "0xAB"
    [] header = "from:0xab" -> "0xab"
    [] header = "garbage" -> "throws"
    [] OTHER -> NoValue

\* String.prototype.toLowerCase on the addresses of the model.
LowerAddress(a) == IF a = "0xAB" THEN "0xab" ELSE a

getClientId(request) ==
  LET from == IF request.header = NoValue THEN NoValue ELSE payloadFrom(request.header)
  IN IF from \notin {NoValue, "throws"}
     THEN [kind |-> "wallet", id |-> LowerAddress(from)]
     ELSE [kind |-> "ip", id |-> IF request.ip = NoValue THEN "unknown" ELSE request.ip]

ClientIds == {getClientId(request) : request \in RateRequests}

NoEntry == [present |-> FALSE, count |-> 0, resetTime |-> 0]

\* An Express response as the limiter uses it: res.status(..).json(..) sends
\* it, and res.setHeader on a response already sent throws
\* ERR_HTTP_HEADERS_SENT.
NoRes == [sent |-> FALSE, status |-> 0, headers |-> {}, remaining |-> 0, threw |-> FALSE]

json(res, status) == [res EXCEPT !.sent = TRUE, !.status = status]

setHeader(res, name) ==
  IF res.threw THEN res
  ELSE IF res.sent THEN [res EXCEPT !.threw = TRUE]
  ELSE [res EXCEPT !.headers = @ \cup {name}]

\* The X-RateLimit-Remaining header with its value.
setRemaining(res, value) ==
  IF res.threw \/ res.sent THEN setHeader(res, "X-RateLimit-Remaining")
  ELSE [setHeader(res, "X-RateLimit-Remaining") EXCEPT !.remaining = value]

\* Math.max(0, limit - count)
remainingOf(limit, count) == IF limit - count > 0 THEN limit - count ELSE 0

\* Lines 87-101: the reject branch, in the order of the code.
rejectResponse(limit) ==
  setHeader(setHeader(setRemaining(setHeader(json(NoRes, 429),
    "X-RateLimit-Limit"), 0), "X-RateLimit-Reset"), "Retry-After")

\* Lines 105-109: the headers of a request that is passed on.
passResponse(limit, count) ==
  setHeader(setRemaining(setHeader(NoRes,
    "X-RateLimit-Limit"), remainingOf(limit, count)), "X-RateLimit-Reset")

\* The last answer: which limiter and client, 429 or passed on (200), whether
\* the entry was created for it, the response, and what was known when the
\* request came: whether the client's entry had been swept, whether the client
\* was over the limit, and the answer the table without sweeps gives.
NoLimited ==
  [limiter |-> NoValue, clientId |-> NoValue, status |-> 0, created |-> FALSE,
   res |-> NoRes, afterSweep |-> FALSE, wasLimited |-> FALSE, withoutSweep |-> 0]

\* Line 73: a missing entry and one whose resetTime has passed are replaced.
expired(entry, t) == ~entry.present \/ entry.resetTime < t

\* Line 86: the limit is exceeded.
exceededLate(count, limit) == count > limit + 1

exceeded(count, limit) == count > limit

\* Lines 73-84: the entry after one more request of the client.
countedSliding(entry, t) ==
  IF expired(entry, t)
  THEN [present |-> TRUE, count |-> 1, resetTime |-> t + windowMs]
  ELSE [entry EXCEPT !.count = @ + 1, !.resetTime = t + windowMs]

counted(entry, t) ==
  IF expired(entry, t)
  THEN [present |-> TRUE, count |-> 1, resetTime |-> t + windowMs]
  ELSE [entry EXCEPT !.count = @ + 1]

\* Line 21: the sweep deletes an entry whose resetTime has passed.
sweptAlways(entry, t) == entry.present

swept(entry, t) == entry.present /\ entry.resetTime < t

InitRateLimit ==
  /\ store = [c \in ClientIds |-> NoEntry]
  /\ now = 0
  /\ passed = [l \in Limiters |-> [c \in ClientIds |-> 0]]
  /\ limited = NoLimited
  /\ unswept = [c \in ClientIds |-> NoEntry]

\* The requests that call getResourceServer at the same time.
NumCallers == 3
Callers == 1 .. NumCallers

NoServer ==
  [created |-> FALSE, promise |-> "none", initialized |-> FALSE,
   constructions |-> 0, initializeCalls |-> 0]
NoFacInput == [init |-> "ok", call |-> "valid", payerInPayload |-> FALSE, pricePerExecution |-> 0]
\* No requirement was built.
NoAmount == [decimal |-> -1]
NoFacResult ==
  [kind |-> "none", valid |-> FALSE, invalidReason |-> NoValue, payerAddress |-> NoValue]

InitFacilitatorIdle ==
  /\ facServer = NoServer
  /\ facOp = "idle"
  /\ facIn = NoFacInput
  /\ facRes = NoFacResult
  /\ facAmount = NoAmount
  /\ caller = [c \in Callers |-> "idle"]


\* No validation function has been applied.
NotAString == [type |-> "undefined", text |-> <<>>]
NoValidation ==
  [valid |-> FALSE, error |-> NoValue, text |-> <<>>, status |-> 0, nextCalled |-> FALSE]

InitValidationIdle ==
  /\ valOp = "none"
  /\ valInput = NotAString
  /\ valMax = 0
  /\ valRes = NoValidation

InitToolsIdle ==
  /\ toolOp = "idle"
  /\ toolWorld = IdleWorld
  /\ toolClient = "null"
  /\ chainRes = NoToolResult
  /\ marketRes = NoToolResult
  /\ augRes = NoAugmentation

\* ---------------------------------------------------------------------------
\* The model invokers applied to every scripted backend behaviour
\* ---------------------------------------------------------------------------

InitInvoker ==
  /\ invEnv \in Envs
  /\ invScript \in [1 .. maxRetries -> Responses]
  /\ promptRes = NoResult
  /\ engineRes = NoResult
  /\ InitSagaIdle
  /\ InitToolsIdle
  /\ InitFacilitatorIdle
  /\ InitRateLimit
  /\ InitValidationIdle
  /\ agentDeveloper = NullAddress

RunPrompt ==
  /\ promptRes = NoResult
  /\ promptRes' = executeAgentWithPrompt(invEnv, invScript)
  /\ UNCHANGED <<invEnv, invScript, engineRes, sagaVars, ledgerVars, dbVars, faults, toolVars, facVars, rateVars, valVars>>

RunEngine ==
  /\ engineRes = NoResult
  /\ engineRes' = executeAgent(invEnv, invScript)
  /\ UNCHANGED <<invEnv, invScript, promptRes, sagaVars, ledgerVars, dbVars, faults, toolVars, facVars, rateVars, valVars>>

NextInvoker == RunPrompt \/ RunEngine

SpecInvoker == InitInvoker /\ [][NextInvoker]_vars

\* ---------------------------------------------------------------------------
\* Tool augmentation (agent-engine/tools.ts and chat.ts:111-166)
\* ---------------------------------------------------------------------------

\* What one request meets: the intents the handler's patterns detect in the
\* input, the configuration of the process, and the behaviour of each remote
\* service on this request.
WalletOutcomes == {"balance", "status", "throw"}
AgentOutcomes == {"text", "unavailable", "unreachable", "rejected"}
RpcOutcomes == {"balance", "balanceError", "providerError"}
MarketOutcomes == {"ticker", "noTicker", "notOk", "throw"}
ClientShapes == {"valid", "invalid", "throws"}

ToolWorlds ==
  [asksPrice : BOOLEAN, hasAddress : BOOLEAN, aboutBalance : BOOLEAN, chainWord : BOOLEAN,
   sdkInstalled : BOOLEAN, platformKey : BOOLEAN, explorerKey : BOOLEAN, modelKey : BOOLEAN,
   clientShape : ClientShapes, wallet : WalletOutcomes, agent : AgentOutcomes,
   rpc : RpcOutcomes, market : MarketOutcomes]

\* The client argument of executeBlockchainQuery: null, an object without
\* agent.generateQuery, or a usable AI Agent SDK client.
Clients == {"null", "invalid", "valid"}

\* Texts the chain-data functions return, and messages of the errors thrown
\* inside them.
TxtNoAddress == Txt(97, "Could", {})
TxtSdkBalance == Txt(70, "Balance", {})
TxtSdkStatus == Txt(140, "Balance", {})
TxtSdkAddress == Txt(125, "Address", {})
TxtRpcBalance == Txt(95, "Balance", {})
TxtRpcBalanceError == Txt(60, "Error", {})
TxtRpcAddress == Txt(98, "Address", {})
TxtErrorColon == Txt(40, "Error:", {"Error"})
TxtAgentText == Txt(200, "The", {})
TxtAgentUnavailable == Txt(60, "Service", {"not available"})
ErrModuleMissing == Txt(58, "Cannot", {})
ErrProvider == Txt(30, "invalid", {})
ErrFetchFailed == Txt(12, "fetch", {"fetch failed"})
ErrRejected == Txt(35, "Request", {})

\* fetchMarketData: the ticker object, or an object with an error field.
MarketBody(w) ==
  CASE w.market = "ticker" -> ToolReturned(TxtEmpty, <<>>)
    [] w.market = "throw" -> ToolThrown(ErrFetchFailed, <<>>)
    [] OTHER -> [ToolReturned(TxtEmpty, <<>>) EXCEPT !.error = TRUE]

CatchMarketError(res) ==
  IF res.kind = "throw" THEN [ToolReturned(TxtEmpty, <<>>) EXCEPT !.error = TRUE] ELSE res

fetchMarketData(w) == CatchMarketError(MarketBody(w))

\* queryBlockchainViaRPC: address check, provider, then getBalance in its own
\* try/catch; the outer catch turns anything thrown into an "Error: ..." text.
RpcBody(w, tiers) ==
  IF ~w.hasAddress THEN ToolReturned(TxtNoAddress, tiers)
  ELSE IF w.rpc = "providerError" THEN ToolThrown(ErrProvider, tiers)
  ELSE IF w.aboutBalance
       THEN IF w.rpc = "balance" THEN ToolReturned(TxtRpcBalance, tiers)
            ELSE ToolReturned(TxtRpcBalanceError, tiers)
  ELSE ToolReturned(TxtRpcAddress, tiers)

RethrowRpcError(res) == res

CatchRpcError(res) ==
  IF res.kind = "throw" THEN ToolReturned(TxtErrorColon, res.tiers) ELSE res

queryBlockchainViaRPC(w, tiers) == CatchRpcError(RpcBody(w, Append(tiers, "rpc")))

\* queryBlockchainDirectly: Developer Platform Client SDK (Wallet.balance); with
\* no key, on a failed Wallet.balance and on anything thrown it hands over to
\* queryBlockchainViaRPC.
DirectBody(w, tiers) ==
  IF ~w.sdkInstalled THEN ToolThrown(ErrModuleMissing, tiers)
  ELSE IF ~(w.platformKey \/ w.explorerKey) THEN queryBlockchainViaRPC(w, tiers)
  ELSE IF ~w.hasAddress THEN ToolReturned(TxtNoAddress, tiers)
  ELSE IF w.aboutBalance
       THEN CASE w.wallet = "balance" -> ToolReturned(TxtSdkBalance, tiers)
              [] w.wallet = "status" -> ToolReturned(TxtSdkStatus, tiers)
              [] OTHER -> queryBlockchainViaRPC(w, tiers)
  ELSE ToolReturned(TxtSdkAddress, tiers)

queryBlockchainDirectly(w, tiers) ==
  LET body == DirectBody(w, Append(tiers, "sdk"))
  IN IF body.kind = "throw" THEN queryBlockchainViaRPC(w, body.tiers) ELSE body

\* The try block of executeBlockchainQuery: structure check, then generateQuery.
AgentBody(client, w, tiers) ==
  IF client = "invalid" THEN queryBlockchainViaRPC(w, tiers)
  ELSE CASE w.agent = "text" -> ToolReturned(TxtAgentText, Append(tiers, "agent"))
         [] w.agent = "unavailable" -> ToolReturned(TxtAgentUnavailable, Append(tiers, "agent"))
         [] w.agent = "unreachable" -> ToolThrown(ErrFetchFailed, Append(tiers, "agent"))
         [] OTHER -> ToolThrown(ErrRejected, Append(tiers, "agent"))

\* The catch block of executeBlockchainQuery.
CatchAgentError(w, res) ==
  IF res.kind # "throw" THEN res
  ELSE IF includes(res.text, "ENOTFOUND") \/ includes(res.text, "fetch failed")
       THEN queryBlockchainViaRPC(w, res.tiers)
  ELSE ToolReturned(TxtErrorColon, res.tiers)

executeBlockchainQuery(client, w) ==
  IF ~w.hasAddress THEN ToolReturned(TxtNoAddress, <<>>)
  ELSE
    LET sdkResult == IF w.aboutBalance THEN queryBlockchainDirectly(w, <<>>) ELSE NoToolResult
    IN IF sdkResult.kind = "throw" THEN sdkResult
       ELSE IF /\ w.aboutBalance
               /\ ~includes(sdkResult.text, "Error")
               /\ ~includes(sdkResult.text, "falling back")
            THEN sdkResult
       ELSE IF client = "null" THEN queryBlockchainDirectly(w, sdkResult.tiers)
       ELSE CatchAgentError(w, AgentBody(client, w, sdkResult.tiers))

\* createCryptoComClient: null unless both packages load and the Developer
\* Platform key and a model key are set; anything thrown gives null.
createCryptoComClient(w) ==
  IF ~w.sdkInstalled \/ ~w.platformKey \/ ~w.modelKey \/ w.clientShape = "throws"
  THEN "null"
  ELSE w.clientShape

\* Intent detection of the handler (chat.ts:115-116, 126-128).
needsMarketData(w) == w.asksPrice
needsBlockchain(w) == w.aboutBalance \/ w.hasAddress \/ w.chainWord

\* The handler's own try/catch around each fetch: a thrown error is logged and
\* the request goes on without that data.
CatchFetchError(res) == IF res.kind = "throw" THEN NoToolResult ELSE res

\* The augmentation block of the handler: which real-data sections end up in the
\* context, and whether an error left the block.
augment(w) ==
  LET market == IF needsMarketData(w) THEN CatchFetchError(fetchMarketData(w)) ELSE NoToolResult
      client == IF needsBlockchain(w) THEN createCryptoComClient(w) ELSE "null"
      chain == IF client # "null" THEN CatchFetchError(executeBlockchainQuery(client, w))
               ELSE NoToolResult
  IN [escaped |-> market.kind = "throw" \/ chain.kind = "throw",
      marketContext |-> market.kind = "return" /\ ~market.error,
      chainContext |-> /\ chain.kind = "return"
                       /\ ~includes(chain.text, "not available")
                       /\ ~includes(chain.text, "Error:"),
      chain |-> chain]

\* Each tool function applied once to one world.

\* determineAgentTools: what the agent's description gives access to.
AgentTools == [hasMarketDataAccess : BOOLEAN, hasBlockchainAccess : BOOLEAN]

\* The augmentation block of executeAgent (executor.ts:190-229): the market
\* section is added for any object fetchMarketData returned, the chain query
\* runs only when the input holds one of the pattern's words.
augmentEngine(w, tools) ==
  LET market == IF tools.hasMarketDataAccess /\ w.asksPrice
                THEN CatchFetchError(fetchMarketData(w)) ELSE NoToolResult
      client == IF tools.hasBlockchainAccess THEN createCryptoComClient(w) ELSE "null"
      chain == IF client # "null" /\ (w.aboutBalance \/ w.chainWord)
               THEN CatchFetchError(executeBlockchainQuery(client, w))
               ELSE NoToolResult
  IN [escaped |-> market.kind = "throw" \/ chain.kind = "throw",
      marketContext |-> market.kind = "return",
      chainContext |-> /\ chain.kind = "return"
                       /\ ~includes(chain.text, "not available")
                       /\ ~includes(chain.text, "Error:"),
      chain |-> chain]

InitTools ==
  /\ InitToolsIdle
  /\ InitFacilitatorIdle
  /\ InitRateLimit
  /\ InitValidationIdle
  /\ InitInvokerIdle
  /\ InitSagaIdle
  /\ agentDeveloper = NullAddress

RunChainQuery ==
  /\ toolOp = "idle"
  /\ \E w \in ToolWorlds, client \in Clients :
       /\ toolWorld' = w
       /\ toolClient' = client
       /\ chainRes' = executeBlockchainQuery(client, w)
  /\ toolOp' = "executeBlockchainQuery"
  /\ UNCHANGED <<marketRes, augRes, invVars, sagaVars, ledgerVars, dbVars, faults, facVars, rateVars, valVars>>

RunMarketFetch ==
  /\ toolOp = "idle"
  /\ \E w \in ToolWorlds :
       /\ toolWorld' = w
       /\ marketRes' = fetchMarketData(w)
  /\ toolOp' = "fetchMarketData"
  /\ UNCHANGED <<toolClient, chainRes, augRes, invVars, sagaVars, ledgerVars, dbVars, faults, facVars, rateVars, valVars>>

RunAugment ==
  /\ toolOp = "idle"
  /\ \E w \in ToolWorlds :
       /\ toolWorld' = w
       /\ toolClient' = createCryptoComClient(w)
       /\ augRes' = augment(w)
  /\ toolOp' = "augment"
  /\ UNCHANGED <<chainRes, marketRes, invVars, sagaVars, ledgerVars, dbVars, faults, facVars, rateVars, valVars>>

RunAugmentEngine ==
  /\ toolOp = "idle"
  /\ \E w \in ToolWorlds, tools \in AgentTools :
       /\ toolWorld' = w
       /\ toolClient' = IF tools.hasBlockchainAccess THEN createCryptoComClient(w) ELSE "null"
       /\ augRes' = augmentEngine(w, tools)
  /\ toolOp' = "augmentEngine"
  /\ UNCHANGED <<chainRes, marketRes, invVars, sagaVars, ledgerVars, dbVars, faults, facVars, rateVars, valVars>>

NextTools == RunChainQuery \/ RunMarketFetch \/ RunAugment \/ RunAugmentEngine

SpecTools == InitTools /\ [][NextTools]_vars

\* ---------------------------------------------------------------------------
\* External collaborators of the saga
\* ---------------------------------------------------------------------------

\* A step that meets n failures is possible while the run's budget allows them.
Failing(n) == faults + n <= MaxFaults /\ faults' = faults + n
Bad(ok) == IF ok THEN 0 ELSE 1

\* ---------------------------------------------------------------------------
\* The x402 facilitator module (backend/README.md, facilitator listing)
\* ---------------------------------------------------------------------------

\* What building and initializing the resource server does on first use, and
\* what server.verifyPayment does with one call.
InitOutcomes == {"ok", "constructThrows", "initializeThrows"}
VerifyCallOutcomes ==
  {"valid", "validNoPayer", "invalid", "invalidNoReason", "null", "throwsError", "throwsValue"}
SettleCallOutcomes ==
  {"success", "failed", "failedNoReason", "null", "throwsError", "throwsValue"}

\* The agent's price as the registry holds it (pricePerExecution, an integer
\* count of millionths of a dollar).
Prices == {0, 1, 249, 100000, 250000, 1000000, 2010000, 8200000}

FacInputs ==
  [init : InitOutcomes, call : VerifyCallOutcomes \cup SettleCallOutcomes,
   payerInPayload : BOOLEAN, pricePerExecution : Prices]

\* chat.ts:35: Number(pricePerExecution) / 1_000_000, the double nearest to that
\* many millionths.
agentPrice(pricePerExecution) == [millionths |-> pricePerExecution]

\* usdAmount * 1_000_000 in IEEE-754 double arithmetic: for the doubles nearest
\* to 0.000249, 2.01 and 8.2 the product is the double just below the whole
\* number (248.99999999999997, 2009999.9999999998, 8199999.999999999), for the
\* other prices of the model it is the whole number itself.
RoundsBelow == {249, 2010000, 8200000}
TimesMillion(usd) ==
  IF usd.millionths \in RoundsBelow
  THEN [whole |-> usd.millionths - 1, fraction |-> TRUE]
  ELSE [whole |-> usd.millionths, fraction |-> FALSE]

\* Math.floor on a non-negative double, and Number.prototype.toString on a
\* whole number (its decimal digits).
MathFloor(x) == x.whole
DecimalString(n) == [decimal |-> n]

usdToUsdc(usdAmount) == DecimalString(MathFloor(TimesMillion(usdAmount)))

\* Reason strings: the facilitator's own, the wrapper's default for a result
\* without one, the message of a thrown Error, and the wrapper's default for a
\* thrown value that is no Error.
ReasonFacilitator == "insufficient amount"
ReasonDefault == "Payment verification failed"
ReasonInitFailed == "Failed to initialize"
ReasonTransport == "fetch failed"
ReasonNoMessage == "Verification failed"

VerifyReturned(valid, reason, payer) ==
  [kind |-> "return", valid |-> valid, invalidReason |-> reason, payerAddress |-> payer]
\* A thrown error: its message, or no message when the value is no Error.
VerifyThrown(message) ==
  [kind |-> "throw", valid |-> FALSE, invalidReason |-> message, payerAddress |-> NoValue]

\* getResourceServer: the server object is built once; initialize() runs once
\* and its promise is kept, so a failed initialization fails every later call.

\* A getResourceServer that stored no promise and started initialize() in every call.
startsInitializationEachCall(server) == TRUE

\* A getResourceServer that cleared the promise when initialize() failed.
startsInitializationAfterFailure(server) == server.promise \in {"none", "rejected"}

\* Whether this call finds no initializationPromise and so starts initialize().
startsInitialization(server) == server.promise = "none"

\* getResourceServer up to its await, which runs without interruption: the
\* server is constructed when there is none (a throwing constructor leaves none),
\* an initialized server is returned at once, and otherwise the call starts
\* initialize() when no promise is stored and then awaits the stored promise.
enterGetResourceServer(server, constructs) ==
  IF ~server.created /\ ~constructs
  THEN [server |-> server, at |-> "threw"]
  ELSE LET built == IF server.created THEN server
                    ELSE [server EXCEPT !.created = TRUE, !.constructions = @ + 1] IN
       IF built.initialized THEN [server |-> built, at |-> "returned"]
       ELSE IF startsInitialization(built)
            THEN [server |-> [built EXCEPT !.promise = "pending", !.initializeCalls = @ + 1],
                  at |-> "waiting"]
            ELSE [server |-> built, at |-> "waiting"]

\* initialize() finishes: serverInitialized is set and the promise resolves, or
\* the error is rethrown and the promise stays rejected.
settleInitialization(server, initializes) ==
  IF initializes THEN [server EXCEPT !.promise = "resolved", !.initialized = TRUE]
  ELSE [server EXCEPT !.promise = "rejected"]

\* A call resumed from its await: it returns the server, or throws what the
\* promise was rejected with.
resumeGetResourceServer(server) ==
  IF server.promise = "rejected" THEN "threw" ELSE "returned"

\* One call of getResourceServer run to its end with no other call in between.
getResourceServer(server, init) ==
  LET entered == enterGetResourceServer(server, init # "constructThrows")
      settled == IF entered.at = "waiting" /\ entered.server.promise = "pending"
                 THEN settleInitialization(entered.server, init # "initializeThrows")
                 ELSE entered.server
  IN [server |-> settled,
      threw |-> IF entered.at = "waiting" THEN resumeGetResourceServer(settled) = "threw"
                ELSE entered.at = "threw"]

\* The try block of verifyPayment.
VerifyBody(got, in) ==
  IF got.threw THEN VerifyThrown(ReasonInitFailed)
  ELSE CASE in.call = "throwsError" -> VerifyThrown(ReasonTransport)
         [] in.call = "throwsValue" -> VerifyThrown(NoValue)
         [] in.call = "null" -> VerifyReturned(FALSE, ReasonDefault, NoValue)
         [] in.call = "invalidNoReason" -> VerifyReturned(FALSE, ReasonDefault, NoValue)
         [] in.call = "invalid" -> VerifyReturned(FALSE, ReasonFacilitator, NoValue)
         [] in.call = "valid" -> VerifyReturned(TRUE, NoValue, "0xPayer")
         [] OTHER -> VerifyReturned(TRUE, NoValue,
                                    IF in.payerInPayload THEN "0xFrom" ELSE NoValue)

RethrowVerifyError(res) == res

\* The catch block of verifyPayment.
CatchVerifyError(res) ==
  IF res.kind = "throw"
  THEN VerifyReturned(FALSE,
                      IF res.invalidReason = NoValue THEN ReasonNoMessage ELSE res.invalidReason,
                      NoValue)
  ELSE res

\* verifyPayment on the module's present server state: the result and the state
\* the module is left in.
verifyPaymentOn(server, in) ==
  LET got == getResourceServer(server, in.init)
  IN [server |-> got.server, result |-> CatchVerifyError(VerifyBody(got, in)),
      amount |-> IF got.threw THEN NoAmount
                 ELSE usdToUsdc(agentPrice(in.pricePerExecution))]

\* settlePayment has the shape of verifyPayment: one try block, whose catch
\* returns {success: false, error: <message>}.
ErrorFacilitator == "settlement rejected"
ErrorDefault == "Payment settlement failed"
ErrorNoMessage == "Settlement failed"

SettleReturned(success, error) == [kind |-> "return", success |-> success, error |-> error]
SettleThrown(message) == [kind |-> "throw", success |-> FALSE, error |-> message]

SettleBody(got, in) ==
  IF got.threw THEN SettleThrown(ReasonInitFailed)
  ELSE CASE in.call = "throwsError" -> SettleThrown(ReasonTransport)
         [] in.call = "throwsValue" -> SettleThrown(NoValue)
         [] in.call = "success" -> SettleReturned(TRUE, NoValue)
         [] in.call = "failed" -> SettleReturned(FALSE, ErrorFacilitator)
         [] OTHER -> SettleReturned(FALSE, ErrorDefault)

CatchSettleError(res) ==
  IF res.kind = "throw"
  THEN SettleReturned(FALSE, IF res.error = NoValue THEN ErrorNoMessage ELSE res.error)
  ELSE res

\* The amount of the requirement handed to the facilitator; none when the
\* server could not be had.
requirementAmount(got, in) ==
  IF got.threw THEN NoAmount ELSE usdToUsdc(agentPrice(in.pricePerExecution))

settlePaymentOn(server, in) ==
  LET got == getResourceServer(server, in.init)
  IN [server |-> got.server, result |-> CatchSettleError(SettleBody(got, in)),
      amount |-> requirementAmount(got, in)]

\* generatePaymentRequiredResponse: the server is asked for first (a failure is
\* logged and ignored), then the challenge is built with the converted amount.
generatePaymentRequiredResponse(server, in) ==
  [server |-> getResourceServer(server, in.init).server,
   result |-> [kind |-> "return", x402Version |-> 1],
   amount |-> usdToUsdc(agentPrice(in.pricePerExecution))]

\* What the facilitator does with a verify or settle call: accepts, rejects with
\* a reason, or the call faults (transport error, failed initialization).
FacilitatorOutcomes == {"ok", "rejected", "fault"}

\* verifyPayment as the saga meets it, on an initialized server: every fault is
\* caught and converted.
ReadyServer ==
  [created |-> TRUE, promise |-> "resolved", initialized |-> TRUE,
   constructions |-> 1, initializeCalls |-> 1]

verifyPayment(outcome) ==
  LET res == verifyPaymentOn(ReadyServer,
                             [init |-> "ok",
                              call |-> IF outcome = "ok" THEN "valid"
                                       ELSE IF outcome = "rejected" THEN "invalid"
                                       ELSE "throwsError",
                              payerInPayload |-> TRUE, pricePerExecution |-> 100000]).result
  IN [threw |-> res.kind = "throw", valid |-> res.valid, invalidReason |-> res.invalidReason]

\* settlePayment as the saga meets it: returns {success}, never throws.
settlePayment(outcome) ==
  LET res == settlePaymentOn(ReadyServer,
                             [init |-> "ok",
                              call |-> IF outcome = "ok" THEN "success"
                                       ELSE IF outcome = "rejected" THEN "failed"
                                       ELSE "throwsError",
                              payerInPayload |-> TRUE, pricePerExecution |-> 100000]).result
  IN [threw |-> res.kind = "throw", success |-> res.success]

\* getAgentFromContract: the agent's profile, or null when it is not registered.
getAgentFromContract == [found |-> agentDeveloper # "missing", developer |-> agentDeveloper]

\* ExecutionLedger.beginExecution: null when the hash was already used or the
\* call failed; otherwise a fresh id, and the agent's totalExecutions grows.
LedgerBeginOutcomes == {"mined", "failed", "threw"}

beginReturnsIdReplay(outcome, hash) == outcome = "mined"

beginReturnsId(outcome, hash) == outcome = "mined" /\ hash \notin usedHashes

NewExec(hash) == [NoExec EXCEPT !.opened = TRUE, !.paymentHash = hash]

\* ExecutionLedger.completeExecution: when the call goes through, the execution
\* is closed and a successful one counts towards successfulExecutions.
LedgerComplete(execs, id, output, success, ok) ==
  IF id \notin ExecIds THEN execs
  ELSE [execs EXCEPT ![id] = [@ EXCEPT !.completeCalls = @ + 1,
                                        !.closed = @ \/ ok,
                                        !.success = IF ok THEN success ELSE @,
                                        !.output = IF ok THEN output ELSE @,
                                        !.argOutput = output,
                                        !.argSuccess = success]]

\* ExecutionLedger.completeExecution adds to the agent's successfulExecutions
\* only for a call that goes through with success = true.
completeCountsAlways(success, ok) == ok

completeCounts(success, ok) == ok /\ success

\* db.updatePayment / db.updateExecution change an existing record only.
updatePayment(payments, hash, status) ==
  IF payments[hash] = "absent" THEN payments ELSE [payments EXCEPT ![hash] = status]

updateExecutionVerified(execs, id) ==
  IF execs[id].present THEN [execs EXCEPT ![id].verified = TRUE] ELSE execs

Respond(r, status, success) ==
  /\ pc' = [pc EXCEPT ![r] = "done"]
  /\ resp' = [resp EXCEPT ![r] = [status |-> status, success |-> success, executionId |-> execId[r]]]

Logged(r, events) == calls' = [calls EXCEPT ![r] = calls[r] \o events]

\* An ActivityLog write as it appears in the call log: it returned, or it threw.
Wrote(write, ok) ==
  IF ok THEN write
  ELSE CASE write = "addPayment" -> "addPayment:threw"
         [] write = "addExecution" -> "addExecution:threw"
         [] write = "updateExecution" -> "updateExecution:threw"
         [] write = "updatePayment:refunded" -> "updatePayment:refunded:threw"
         [] write = "updatePayment:settled" -> "updatePayment:settled:threw"
         [] write = "updatePayment:failed" -> "updatePayment:failed:threw"

\* ---------------------------------------------------------------------------
\* POST /api/chat (chat.ts, lines 20-359), one action per awaited step
\* ---------------------------------------------------------------------------

\* Lines 43-77: what the handler makes of the payment proof of a request.
proofCheckTrustingBodyHash(q) ==
  IF q.bodyHash = NoValue /\ q.header = NoValue THEN "challenge"
  ELSE IF q.header = NoValue THEN "proceed"
  ELSE IF DecodeThrows(q.header) THEN "badFormat"
  ELSE "proceed"

proofCheck(q) ==
  IF q.bodyHash = NoValue /\ q.header = NoValue THEN "challenge"
  ELSE IF q.header = NoValue THEN "headerMissing"
  ELSE IF DecodeThrows(q.header) THEN "badFormat"
  ELSE "proceed"

ProofEvents(q, check) ==
  <<"getAgent">>
    \o (IF check = "challenge" THEN <<"challenge">> ELSE <<>>)
    \o (IF q.header # NoValue THEN <<"decode">> ELSE <<>>)

\* Lines 22-77: the request arrives, the agent is read from the registry, the
\* payment proof is looked for and decoded.
Receive(r) ==
  /\ pc[r] = "idle"
  /\ \E q \in Requests, agentOk \in BOOLEAN :
       /\ req' = [req EXCEPT ![r] = q]
       /\ IF ~q.hasInput
          THEN agentOk /\ Failing(0) /\ Respond(r, 400, FALSE) /\ UNCHANGED calls
          ELSE /\ Failing(Bad(agentOk))
               /\ IF ~agentOk
                  THEN Respond(r, 500, FALSE) /\ Logged(r, <<"getAgent:fault">>)
                  ELSE IF ~getAgentFromContract.found
                  THEN Respond(r, 404, FALSE) /\ Logged(r, <<"getAgent">>)
                  ELSE /\ Logged(r, ProofEvents(q, proofCheck(q)))
                       /\ IF proofCheck(q) = "proceed"
                          THEN pc' = [pc EXCEPT ![r] = "verify"] /\ UNCHANGED resp
                          ELSE Respond(r, 402, FALSE)
  /\ UNCHANGED <<payHash, execId, result, invVars, toolVars, facVars, rateVars, valVars, ledgerVars, dbVars>>

\* Lines 94-99: an invalid verification ends the request with 402.
verificationRejectedNever(verification) == FALSE

verificationRejected(verification) == ~verification.valid

\* Lines 79-109: verifyPayment returns; an invalid payment ends the request, a
\* valid one fixes the payment hash.
Verify(r) ==
  /\ pc[r] = "verify"
  /\ \E outcome \in FacilitatorOutcomes :
       LET verification == verifyPayment(outcome) IN
       /\ Failing(IF outcome = "fault" THEN 1 ELSE 0)
       /\ Logged(r, <<IF outcome = "ok" THEN "verify:ok"
                      ELSE IF outcome = "rejected" THEN "verify:rejected"
                      ELSE "verify:fault">>)
       /\ IF verificationRejected(verification)
          THEN Respond(r, 402, FALSE) /\ UNCHANGED payHash
          ELSE /\ payHash' = [payHash EXCEPT ![r] =
                    paymentHashBytes32(req[r].bodyHash,
                                       decodePaymentSignatureHeader(req[r].header),
                                       req[r].header)]
               /\ pc' = [pc EXCEPT ![r] = "augment"]
               /\ UNCHANGED resp
  /\ UNCHANGED <<req, execId, result, invVars, toolVars, facVars, rateVars, valVars, ledgerVars, dbVars>>

\* Lines 111-166: intent detection and the data fetches it asks for.  No fetch
\* is made when the input needs none; a fetch returns data, an error value, or
\* throws into its own catch.  Every outcome goes on to the ledger call.
FetchOutcomes == {"skipped", "data", "error", "threw"}

Augment(r) ==
  /\ pc[r] = "augment"
  /\ \E outcome \in FetchOutcomes :
       Logged(r, IF outcome = "skipped" THEN <<>> ELSE <<"fetch">>)
  /\ pc' = [pc EXCEPT ![r] = "begin"]
  /\ UNCHANGED <<req, payHash, execId, result, resp, invVars, toolVars, facVars, rateVars, valVars, ledgerVars, dbVars, faults>>

\* Line 205: a null execution id ends the request with 402.
beginRejectedNever(id) == FALSE

beginRejected(id) == id = 0

\* Lines 192-232: executeAgentOnContract returns (or throws); on an id the
\* payment is logged as pending (a failing log write is caught).
Begin(r) ==
  /\ pc[r] = "begin"
  /\ \E outcome \in LedgerBeginOutcomes, addPaymentOk \in BOOLEAN :
       LET id == IF beginReturnsId(outcome, payHash[r]) THEN totalExecutions + 1 ELSE 0 IN
       /\ IF id # 0
          THEN /\ usedHashes' = usedHashes \cup {payHash[r]}
               /\ ledgerExecs' = [ledgerExecs EXCEPT ![id] = NewExec(payHash[r])]
               /\ totalExecutions' = totalExecutions + 1
          ELSE UNCHANGED <<usedHashes, ledgerExecs, totalExecutions>>
       /\ IF outcome = "threw"
          THEN /\ addPaymentOk /\ Failing(1)
               /\ Logged(r, <<"begin", "begin:threw">>)
               /\ Respond(r, 500, FALSE) /\ UNCHANGED <<execId, dbPayments>>
          ELSE IF beginRejected(id)
          THEN /\ addPaymentOk /\ Failing(IF outcome = "failed" THEN 1 ELSE 0)
               /\ Logged(r, <<"begin">>)
               /\ Respond(r, 402, FALSE) /\ UNCHANGED <<execId, dbPayments>>
          ELSE /\ Failing(Bad(addPaymentOk) + (IF outcome = "failed" THEN 1 ELSE 0))
               /\ Logged(r, <<"begin", Wrote("addPayment", addPaymentOk)>>)
               /\ execId' = [execId EXCEPT ![r] = id]
               /\ dbPayments' = IF addPaymentOk
                                 THEN [dbPayments EXCEPT ![payHash[r]] = "pending"]
                                 ELSE dbPayments
               /\ pc' = [pc EXCEPT ![r] = "invoke"]
               /\ UNCHANGED resp
  /\ UNCHANGED <<req, payHash, result, invVars, toolVars, facVars, rateVars, valVars, agentDeveloper, successfulExecutions, dbExecutions>>

\* Backend behaviours a saga is run against: a valid output, an output that
\* fails validation, retries exhausted on a 503, a non-retryable error.
SagaScripts ==
  { [i \in 1 .. maxRetries |-> ROk(TxtGood)],
    [i \in 1 .. maxRetries |-> ROk(TxtErrShort)],
    [i \in 1 .. maxRetries |-> RErr(Err503)],
    [i \in 1 .. maxRetries |-> IF i = 1 THEN RErr(ErrFatal) ELSE ROk(TxtGood)] }

SagaEnv == [gemini |-> TRUE, openRouter |-> TRUE]

\* Line 249: the output given to a thrown value that is no Error.
MsgExecFailed == Txt(22, "Agent", {})

\* Lines 245-252: a throw of executeAgentWithPrompt is caught and becomes a failed
\* result carrying the error message.
RethrowExecError(res) == res

CatchExecErrorGeneric(res) ==
  IF res.kind = "throw"
  THEN [kind |-> "return", output |-> MsgExecFailed, success |-> FALSE, calls |-> res.calls]
  ELSE res

CatchExecError(res) ==
  IF res.kind = "throw"
  THEN [kind |-> "return", output |-> res.output, success |-> FALSE, calls |-> res.calls]
  ELSE res

\* Lines 234-272: executeAgentWithPrompt returns or throws; the execution is
\* logged (a failing log write is caught).

\* Lines 256-267: the record db.addExecution stores.
executionRecordAssumed(res) == [present |-> TRUE, success |-> TRUE, verified |-> FALSE]

executionRecord(res) == [present |-> TRUE, success |-> res.success, verified |-> FALSE]

Invoke(r) ==
  /\ pc[r] = "invoke"
  /\ \E script \in SagaScripts, addExecutionOk \in BOOLEAN :
       LET raw == executeAgentWithPrompt(SagaEnv, script)
           res == CatchExecError(raw)
       IN
       /\ IF res.kind = "throw"
          THEN /\ addExecutionOk /\ Failing(0)
               /\ Logged(r, <<"model">>)
               /\ Respond(r, 500, FALSE) /\ UNCHANGED <<result, dbExecutions>>
          ELSE /\ Failing(Bad(addExecutionOk))
               /\ Logged(r, <<"model", Wrote("addExecution", addExecutionOk)>>)
               /\ result' = [result EXCEPT ![r] = res]
               /\ dbExecutions' = IF addExecutionOk
                                   THEN [dbExecutions EXCEPT ![execId[r]] = executionRecord(res)]
                                   ELSE dbExecutions
               /\ pc' = [pc EXCEPT ![r] = "complete"]
               /\ UNCHANGED resp
  /\ UNCHANGED <<req, payHash, execId, invVars, toolVars, facVars, rateVars, valVars, ledgerVars, dbPayments>>

\* Line 286: settlement is attempted for a successful result only.
shouldSettleAlways(res) == TRUE

shouldSettle(res) == res.success

\* Lines 274-320 up to the settle call: verifyExecutionOnContract returns, the
\* log record is marked verified, and a failed execution is marked refunded.
Complete(r) ==
  /\ pc[r] = "complete"
  /\ \E ok \in BOOLEAN, updateExecutionOk \in BOOLEAN, updatePaymentOk \in BOOLEAN :
       /\ Logged(r, <<"complete">>
                      \o (IF ok THEN <<Wrote("updateExecution", updateExecutionOk)>> ELSE <<>>)
                      \o (IF ~shouldSettle(result[r]) /\ (ok => updateExecutionOk)
                          THEN <<Wrote("updatePayment:refunded", updatePaymentOk)>> ELSE <<>>))
       /\ ledgerExecs' = LedgerComplete(ledgerExecs, execId[r], result[r].output,
                                        result[r].success, ok)
       /\ successfulExecutions' =
            IF completeCounts(result[r].success, ok) THEN successfulExecutions + 1
            ELSE successfulExecutions
       /\ IF ok /\ ~updateExecutionOk
          THEN /\ updatePaymentOk /\ Failing(1)
               /\ Respond(r, 500, FALSE) /\ UNCHANGED dbVars
          ELSE /\ ~ok => updateExecutionOk
               /\ dbExecutions' = IF ok THEN updateExecutionVerified(dbExecutions, execId[r])
                                   ELSE dbExecutions
               /\ IF shouldSettle(result[r])
                  THEN /\ updatePaymentOk /\ Failing(Bad(ok))
                       /\ pc' = [pc EXCEPT ![r] = "settle"]
                       /\ UNCHANGED <<resp, dbPayments>>
                  ELSE /\ Failing(Bad(ok) + Bad(updatePaymentOk))
                       /\ IF updatePaymentOk
                          THEN /\ dbPayments' = updatePayment(dbPayments, payHash[r], "refunded")
                               /\ Respond(r, 200, result[r].success)
                          ELSE Respond(r, 500, FALSE) /\ UNCHANGED dbPayments
  /\ UNCHANGED <<req, payHash, execId, result, invVars, toolVars, facVars, rateVars, valVars,
                 agentDeveloper, usedHashes, totalExecutions>>

\* Lines 304-317: the payment record is marked settled inside the try block; when
\* that write throws, the catch marks it failed; when that throws too, the outer
\* catch answers 500.
MarkSettled(r, events, settledOk, failedOk) ==
  IF settledOk
  THEN /\ failedOk
       /\ Logged(r, events \o <<Wrote("updatePayment:settled", TRUE)>>)
       /\ dbPayments' = updatePayment(dbPayments, payHash[r], "settled")
       /\ Respond(r, 200, result[r].success)
  ELSE /\ Logged(r, events \o <<Wrote("updatePayment:settled", FALSE),
                                  Wrote("updatePayment:failed", failedOk)>>)
       /\ IF failedOk
          THEN /\ dbPayments' = updatePayment(dbPayments, payHash[r], "failed")
               /\ Respond(r, 200, result[r].success)
          ELSE Respond(r, 500, FALSE) /\ UNCHANGED dbPayments

\* Lines 314-317: the catch block of the settlement section.
MarkFailed(r, events, failedOk) ==
  /\ Logged(r, events \o <<Wrote("updatePayment:failed", failedOk)>>)
  /\ IF failedOk
     THEN /\ dbPayments' = updatePayment(dbPayments, payHash[r], "failed")
          /\ Respond(r, 200, result[r].success)
     ELSE Respond(r, 500, FALSE) /\ UNCHANGED dbPayments

\* Lines 288-293: the try block goes on after settlePayment unless it threw; the
\* returned {success} is not looked at.
settleProceeds(settled) == ~settled.threw

\* Lines 286-298: settlePayment returns.
Settle(r) ==
  /\ pc[r] = "settle"
  /\ \E outcome \in FacilitatorOutcomes, failedOk \in BOOLEAN :
       LET settled == settlePayment(outcome)
           event == IF outcome = "ok" THEN "settle:ok"
                    ELSE IF outcome = "rejected" THEN "settle:rejected"
                    ELSE "settle:fault"
       IN
       IF settleProceeds(settled)
       THEN /\ failedOk /\ Failing(IF outcome = "ok" THEN 0 ELSE 1)
            /\ Logged(r, <<event>>)
            /\ pc' = [pc EXCEPT ![r] = "agent"]
            /\ UNCHANGED <<resp, dbPayments>>
       ELSE /\ Failing(Bad(failedOk) + (IF outcome = "ok" THEN 0 ELSE 1))
            /\ MarkFailed(r, <<event>>, failedOk)
  /\ UNCHANGED <<req, payHash, execId, result, invVars, toolVars, facVars, rateVars, valVars, ledgerVars, dbExecutions>>

\* Line 299: release is attempted only for an agent with a developer address.
shouldReleaseAlways(agent) == TRUE

shouldRelease(agent) ==
  agent.found /\ agent.developer # NoValue /\ agent.developer # NullAddress

\* Lines 298-313: getAgentFromContract returns (or throws into the catch).
AgentLookup(r) ==
  /\ pc[r] = "agent"
  /\ \E agentOk \in BOOLEAN, settledOk \in BOOLEAN, failedOk \in BOOLEAN :
       IF ~agentOk
       THEN /\ settledOk /\ Failing(1 + Bad(failedOk))
            /\ MarkFailed(r, <<"getAgent:fault">>, failedOk)
       ELSE IF shouldRelease(getAgentFromContract)
       THEN /\ settledOk /\ failedOk /\ Failing(0)
            /\ Logged(r, <<"getAgent">>)
            /\ pc' = [pc EXCEPT ![r] = "release"]
            /\ UNCHANGED <<resp, dbPayments>>
       ELSE /\ Failing(Bad(settledOk) + (IF settledOk THEN 0 ELSE Bad(failedOk)))
            /\ MarkSettled(r, <<"getAgent">>, settledOk, failedOk)
  /\ UNCHANGED <<req, payHash, execId, result, invVars, toolVars, facVars, rateVars, valVars, ledgerVars, dbExecutions>>

\* Lines 301-308: releasePaymentToDeveloper returns; the record is marked
\* settled whether or not the release went through.
Release(r) ==
  /\ pc[r] = "release"
  /\ \E released \in BOOLEAN, settledOk \in BOOLEAN, failedOk \in BOOLEAN :
       /\ Failing(Bad(released) + Bad(settledOk) + (IF settledOk THEN 0 ELSE Bad(failedOk)))
       /\ MarkSettled(r, <<IF released THEN "release:ok" ELSE "release:failed">>,
                      settledOk, failedOk)
  /\ UNCHANGED <<req, payHash, execId, result, invVars, toolVars, facVars, rateVars, valVars, ledgerVars, dbExecutions>>

Init ==
  /\ InitInvokerIdle
  /\ InitSagaIdle
  /\ InitToolsIdle
  /\ InitFacilitatorIdle
  /\ InitRateLimit
  /\ InitValidationIdle
  /\ agentDeveloper \in {"missing", NoValue, NullAddress, "0xDev"}

Next ==
  \E r \in Sagas :
    \/ Receive(r)
    \/ Verify(r)
    \/ Augment(r)
    \/ Begin(r)
    \/ Invoke(r)
    \/ Complete(r)
    \/ Settle(r)
    \/ AgentLookup(r)
    \/ Release(r)

Spec == Init /\ [][Next]_vars


\* ---------------------------------------------------------------------------
\* POST /api/chat in the revision of src/unnamed/part_004: no rate limiting, one
\* provider, no try/catch around the ActivityLog writes or the model call
\* ---------------------------------------------------------------------------

\* part_004 lines 322-345: the retry loop; an empty output throws the last error
\* or "Failed to get response from Gemini".
RECURSIVE LoopPart004(_, _, _, _, _)
LoopPart004(script, attempt, hadError, lastError, sent) ==
  IF attempt > maxRetries
  THEN AfterLoop(TxtEmpty, hadError, lastError, sent, MsgNoResponse)
  ELSE
    LET r == script[attempt]
        made == Append(sent, Call("gemini", attempt))
    IN IF r.ok
       THEN AfterLoop(r.out, hadError, lastError, made, MsgNoResponse)
       ELSE IF MessageRetryable(r.err.message) /\ attempt < maxRetries
       THEN LoopPart004(script, attempt + 1, TRUE, r.err, made)
       ELSE Thrown(r.err.message, made)

\* part_004 lines 303-357.
executeAgentWithPromptPart004(env, script) ==
  IF ~env.gemini THEN Returned(MsgNoGeminiKey, FALSE, <<>>)
  ELSE LoopPart004(script, 1, FALSE, ErrFatal, <<>>)

\* part_004 lines 182-203: executeAgentOnContract returns (or throws); on an id
\* db.addPayment is called, and when it throws the outer catch answers 500.
BeginPart004(r) ==
  /\ pc[r] = "begin"
  /\ \E outcome \in LedgerBeginOutcomes, addPaymentOk \in BOOLEAN :
       LET id == IF beginReturnsId(outcome, payHash[r]) THEN totalExecutions + 1 ELSE 0 IN
       /\ IF id # 0
          THEN /\ usedHashes' = usedHashes \cup {payHash[r]}
               /\ ledgerExecs' = [ledgerExecs EXCEPT ![id] = NewExec(payHash[r])]
               /\ totalExecutions' = totalExecutions + 1
          ELSE UNCHANGED <<usedHashes, ledgerExecs, totalExecutions>>
       /\ IF outcome = "threw"
          THEN /\ addPaymentOk /\ Failing(1)
               /\ Logged(r, <<"begin", "begin:threw">>)
               /\ Respond(r, 500, FALSE) /\ UNCHANGED <<execId, dbPayments>>
          ELSE IF beginRejected(id)
          THEN /\ addPaymentOk /\ Failing(IF outcome = "failed" THEN 1 ELSE 0)
               /\ Logged(r, <<"begin">>)
               /\ Respond(r, 402, FALSE) /\ UNCHANGED <<execId, dbPayments>>
          ELSE /\ Failing(Bad(addPaymentOk))
               /\ Logged(r, <<"begin", Wrote("addPayment", addPaymentOk)>>)
               /\ execId' = [execId EXCEPT ![r] = id]
               /\ IF addPaymentOk
                  THEN /\ dbPayments' = [dbPayments EXCEPT ![payHash[r]] = "pending"]
                       /\ pc' = [pc EXCEPT ![r] = "invoke"]
                       /\ UNCHANGED resp
                  ELSE /\ pc' = [pc EXCEPT ![r] = "done"]
                       /\ resp' = [resp EXCEPT ![r] =
                                     [status |-> 500, success |-> FALSE, executionId |-> 0]]
                       /\ UNCHANGED dbPayments
  /\ UNCHANGED <<req, payHash, result, invVars, toolVars, facVars, rateVars, valVars, agentDeveloper, successfulExecutions, dbExecutions>>

\* part_004 lines 205-224: executeAgentWithPrompt returns or throws, then
\* db.addExecution; a throw of either reaches the outer catch.
InvokePart004(r) ==
  /\ pc[r] = "invoke"
  /\ \E script \in SagaScripts, addExecutionOk \in BOOLEAN :
       LET res == executeAgentWithPromptPart004(SagaEnv, script) IN
       IF res.kind = "throw"
       THEN /\ addExecutionOk /\ Failing(0)
            /\ Logged(r, <<"model">>)
            /\ Respond(r, 500, FALSE) /\ UNCHANGED <<result, dbExecutions>>
       ELSE /\ Failing(Bad(addExecutionOk))
            /\ Logged(r, <<"model", Wrote("addExecution", addExecutionOk)>>)
            /\ result' = [result EXCEPT ![r] = res]
            /\ IF addExecutionOk
               THEN /\ dbExecutions' = [dbExecutions EXCEPT ![execId[r]] = executionRecord(res)]
                    /\ pc' = [pc EXCEPT ![r] = "complete"]
                    /\ UNCHANGED resp
               ELSE Respond(r, 500, FALSE) /\ UNCHANGED dbExecutions
  /\ UNCHANGED <<req, payHash, execId, invVars, toolVars, facVars, rateVars, valVars, ledgerVars, dbPayments>>

\* part_004 lines 237-243 and 260-263: settlePayment returns; the release
\* follows without a registry lookup.
SettlePart004(r) ==
  /\ pc[r] = "settle"
  /\ \E outcome \in FacilitatorOutcomes, failedOk \in BOOLEAN :
       LET settled == settlePayment(outcome)
           event == IF outcome = "ok" THEN "settle:ok"
                    ELSE IF outcome = "rejected" THEN "settle:rejected"
                    ELSE "settle:fault"
       IN
       IF settleProceeds(settled)
       THEN /\ failedOk /\ Failing(IF outcome = "ok" THEN 0 ELSE 1)
            /\ Logged(r, <<event>>)
            /\ pc' = [pc EXCEPT ![r] = "release"]
            /\ UNCHANGED <<resp, dbPayments>>
       ELSE /\ Failing(Bad(failedOk) + (IF outcome = "ok" THEN 0 ELSE 1))
            /\ MarkFailed(r, <<event>>, failedOk)
  /\ UNCHANGED <<req, payHash, execId, result, invVars, toolVars, facVars, rateVars, valVars, ledgerVars, dbExecutions>>

\* The handler of part_004: lines 17-110 and 226-270 read as the same lines of
\* chat.ts do (Receive, Verify, Augment, Complete, Release).
NextPart004 ==
  \E r \in Sagas :
    \/ Receive(r)
    \/ Verify(r)
    \/ Augment(r)
    \/ BeginPart004(r)
    \/ InvokePart004(r)
    \/ Complete(r)
    \/ SettlePart004(r)
    \/ Release(r)

SpecPart004 == Init /\ [][NextPart004]_vars

\* ---------------------------------------------------------------------------
\* The facilitator module called again and again
\* ---------------------------------------------------------------------------

InitFacilitator ==
  /\ InitFacilitatorIdle
  /\ InitRateLimit
  /\ InitValidationIdle
  /\ InitToolsIdle
  /\ InitInvokerIdle
  /\ InitSagaIdle
  /\ agentDeveloper = NullAddress

FacCall(op, out, in) ==
  /\ facServer' = out.server
  /\ facOp' = op
  /\ facIn' = in
  /\ facRes' = out.result
  /\ facAmount' = out.amount
  /\ UNCHANGED <<caller, invVars, sagaVars, ledgerVars, dbVars, faults, toolVars, rateVars, valVars>>

CallVerifyPayment ==
  \E in \in FacInputs :
    /\ in.call \in VerifyCallOutcomes
    /\ FacCall("verifyPayment", verifyPaymentOn(facServer, in), in)

CallSettlePayment ==
  \E in \in FacInputs :
    /\ in.call \in SettleCallOutcomes
    /\ FacCall("settlePayment", settlePaymentOn(facServer, in), in)

\* The challenge is built without a facilitator call and without a payload.
CallPaymentRequired ==
  \E in \in FacInputs :
    /\ in.call = "null" /\ ~in.payerInPayload
    /\ FacCall("generatePaymentRequiredResponse", generatePaymentRequiredResponse(facServer, in), in)

NextFacilitator == CallVerifyPayment \/ CallSettlePayment \/ CallPaymentRequired

SpecFacilitator == InitFacilitator /\ [][NextFacilitator]_vars

\* ---------------------------------------------------------------------------
\* Several requests inside getResourceServer at once
\* ---------------------------------------------------------------------------

InitInitialization == InitFacilitator

\* A request calls getResourceServer and runs to the await (or to its end).
EnterGetResourceServer(c) ==
  \E constructs \in BOOLEAN :
    LET entered == enterGetResourceServer(facServer, constructs) IN
    /\ caller[c] = "idle"
    /\ facServer' = entered.server
    /\ caller' = [caller EXCEPT ![c] = entered.at]
    /\ facOp' = "getResourceServer"
    /\ UNCHANGED <<facIn, facRes, facAmount, invVars, sagaVars, ledgerVars, dbVars, faults,
                   toolVars, rateVars, valVars>>

\* The facilitator answers the one initialize() call that is under way.
SettleInitialization ==
  \E initializes \in BOOLEAN :
    /\ facServer.promise = "pending"
    /\ facServer' = settleInitialization(facServer, initializes)
    /\ facOp' = "initialize"
    /\ UNCHANGED <<caller, facIn, facRes, facAmount, invVars, sagaVars, ledgerVars, dbVars,
                   faults, toolVars, rateVars, valVars>>

\* A waiting request continues once the awaited promise is settled.
ResumeGetResourceServer(c) ==
  /\ caller[c] = "waiting"
  /\ facServer.promise \in {"resolved", "rejected"}
  /\ caller' = [caller EXCEPT ![c] = resumeGetResourceServer(facServer)]
  /\ facOp' = "getResourceServer"
  /\ UNCHANGED <<facServer, facIn, facRes, facAmount, invVars, sagaVars, ledgerVars, dbVars,
                 faults, toolVars, rateVars, valVars>>

\* The request is over and the next one of this client arrives.
NextRequest(c) ==
  /\ caller[c] \in {"returned", "threw"}
  /\ caller' = [caller EXCEPT ![c] = "idle"]
  /\ facOp' = "idle"
  /\ UNCHANGED <<facServer, facIn, facRes, facAmount, invVars, sagaVars, ledgerVars, dbVars,
                 faults, toolVars, rateVars, valVars>>

NextInitialization ==
  \/ \E c \in Callers : EnterGetResourceServer(c)
  \/ SettleInitialization
  \/ \E c \in Callers : ResumeGetResourceServer(c)
  \/ \E c \in Callers : NextRequest(c)

SpecInitialization == InitInitialization /\ [][NextInitialization]_vars

\* ---------------------------------------------------------------------------
\* The rate limiters under requests, passing time and the periodic sweep
\* ---------------------------------------------------------------------------

InitRate ==
  /\ InitRateLimit
  /\ InitValidationIdle
  /\ InitFacilitatorIdle
  /\ InitToolsIdle
  /\ InitInvokerIdle
  /\ InitSagaIdle
  /\ agentDeveloper = NullAddress

\* Lines 66-110: one request goes through one limiter.
RateLimit(limiter, request) ==
  LET clientId == getClientId(request)
      fresh == expired(store[clientId], now)
      entry == counted(store[clientId], now)
      over == exceeded(entry.count, max(limiter))
      shadow == counted(unswept[clientId], now)
  IN /\ entry.count <= MaxRequests
     /\ shadow.count <= MaxRequests
     /\ store' = [store EXCEPT ![clientId] = entry]
     /\ unswept' = [unswept EXCEPT ![clientId] = shadow]
     /\ passed' = [l \in Limiters |->
                     [c \in ClientIds |->
                        IF c # clientId THEN passed[l][c]
                        ELSE (IF fresh THEN 0 ELSE passed[l][c])
                             + (IF l = limiter /\ ~over THEN 1 ELSE 0)]]
     /\ limited' = [limiter |-> limiter, clientId |-> clientId,
                    status |-> IF over THEN 429 ELSE 200, created |-> fresh,
                    res |-> IF over THEN rejectResponse(max(limiter))
                            ELSE passResponse(max(limiter), entry.count),
                    afterSweep |-> ~store[clientId].present /\ unswept[clientId].present,
                    wasLimited |-> /\ store[clientId].present
                                   /\ exceeded(store[clientId].count, max(limiter)),
                    withoutSweep |-> IF exceeded(shadow.count, max(limiter))
                                     THEN 429 ELSE 200]
     /\ UNCHANGED now

\* Date.now() moves on.
Tick ==
  /\ now < MaxNow
  /\ now' = now + 1
  /\ UNCHANGED <<store, passed, limited, unswept>>

\* Lines 18-25: the periodic sweep deletes the entries whose resetTime has passed.
Sweep ==
  /\ \E c \in ClientIds : swept(store[c], now)
  /\ store' = [c \in ClientIds |-> IF swept(store[c], now) THEN NoEntry ELSE store[c]]
  /\ UNCHANGED <<now, passed, limited, unswept>>

NextRate ==
  \/ \E limiter \in Limiters, request \in RateRequests :
       RateLimit(limiter, request) /\ UNCHANGED <<invVars, sagaVars, ledgerVars, dbVars, faults, toolVars, facVars, valVars>>
  \/ Tick /\ UNCHANGED <<invVars, sagaVars, ledgerVars, dbVars, faults, toolVars, facVars, valVars>>
  \/ Sweep /\ UNCHANGED <<invVars, sagaVars, ledgerVars, dbVars, faults, toolVars, facVars, valVars>>

SpecRate == InitRate /\ [][NextRate]_vars

\* ---------------------------------------------------------------------------
\* The payment hash of requests that have reached verification
\* ---------------------------------------------------------------------------

\* req.body.paymentHash as line 103 tells it apart: absent, empty, without the
\* 0x prefix, and two 0x-prefixed values.
HashBodyHashes == {NoValue, "", "B2", "0xB1", "0xB2"}
HashRequests == [header : ValidHeaders, bodyHash : HashBodyHashes, hasInput : {TRUE}]

\* Every saga has received a request with a decodable payment header.
InitHash ==
  /\ pc = [r \in Sagas |-> "verify"]
  /\ req \in [Sagas -> HashRequests]
  /\ calls = [r \in Sagas |-> <<"getAgent", "decode">>]
  /\ payHash = [r \in Sagas |-> NoValue]
  /\ execId = [r \in Sagas |-> 0]
  /\ result = [r \in Sagas |-> NoResult]
  /\ resp = [r \in Sagas |-> NoResponse]
  /\ usedHashes = {}
  /\ ledgerExecs = [id \in ExecIds |-> NoExec]
  /\ totalExecutions = 0
  /\ successfulExecutions = 0
  /\ dbPayments = [h \in PaymentHashes |-> "absent"]
  /\ dbExecutions = [id \in {0} \cup ExecIds |-> NoExecRecord]
  /\ faults = 0
  /\ agentDeveloper = NullAddress
  /\ InitInvokerIdle
  /\ InitToolsIdle
  /\ InitFacilitatorIdle
  /\ InitRateLimit
  /\ InitValidationIdle

NextHash == \E r \in Sagas : Verify(r)

SpecHash == InitHash /\ [][NextHash]_vars

\* ---------------------------------------------------------------------------
\* Properties
\* ---------------------------------------------------------------------------

\* What a request has called so far, read off its call log.
Count(log, event) == Cardinality({i \in DOMAIN log : log[i] = event})
Called(r, event) == \E i \in DOMAIN calls[r] : calls[r][i] = event
CalledAny(r, events) == \E i \in DOMAIN calls[r] : calls[r][i] \in events

SettleEvents == {"settle:ok", "settle:rejected", "settle:fault"}
ReleaseEvents == {"release:ok", "release:failed"}
FailedResult(r) == result[r].kind = "return" /\ ~result[r].success

\* C1: once executeAgentOnContract has returned an execution id to a request,
\* verifyExecutionOnContract is called for that id exactly once before the
\* request ends (and never twice), whether the output was valid, was rejected by
\* validation, the invocation threw, or an ActivityLog write failed.
C1_CompleteExactlyOnce ==
  \A r \in Sagas :
    execId[r] # 0 =>
      /\ Count(calls[r], "complete") <= 1
      /\ ledgerExecs[execId[r]].completeCalls = Count(calls[r], "complete")
      /\ pc[r] = "done" => Count(calls[r], "complete") = 1

C1_Witness ==
  \E r \in Sagas :
    /\ pc[r] = "done"
    /\ execId[r] # 0
    /\ result[r].output = Err503.message
    /\ ~result[r].success
    /\ ledgerExecs[execId[r]].completeCalls = 1

\* C2: of two requests that carry the same payment proof, at most one opens an
\* execution; the other (no call having faulted) is answered 402 and has called
\* neither the model, nor completeExecution, nor settlement.
C2_SameProofOneExecution ==
  \A r1, r2 \in Sagas :
    (/\ r1 # r2
     /\ faults = 0
     /\ req[r1].header \in ValidHeaders
     /\ req[r1].header = req[r2].header
     /\ execId[r1] # 0
     /\ Called(r2, "begin"))
    => /\ execId[r2] = 0
       /\ resp[r2].status = 402
       /\ ~CalledAny(r2, {"model", "complete"} \cup SettleEvents)

\* C3: for every payment hash at most one beginExecution call returns an id,
\* and every request whose beginExecution call returned null has stopped there.
C3_OneBeginPerHash ==
  /\ \A r1, r2 \in Sagas :
       (r1 # r2 /\ execId[r1] # 0 /\ execId[r2] # 0) => payHash[r1] # payHash[r2]
  /\ \A r \in Sagas :
       (Called(r, "begin") /\ execId[r] = 0) =>
         /\ pc[r] = "done"
         /\ resp[r].status \in {402, 500}
         /\ calls[r][Len(calls[r])] \in {"begin", "begin:threw"}

C3_Witness ==
  \E r1, r2 \in Sagas :
    /\ r1 # r2
    /\ payHash[r1] = payHash[r2]
    /\ execId[r1] # 0
    /\ Called(r2, "begin")
    /\ execId[r2] = 0
    /\ resp[r2].status = 402
    /\ faults = 0

\* C4: two requests that carry the same payment header come to beginExecution
\* with the same payment hash, whatever paymentHash value their bodies carry.
C4_HashFromHeaderOnly ==
  \A r1, r2 \in Sagas :
    (/\ payHash[r1] # NoValue
     /\ payHash[r2] # NoValue
     /\ req[r1].header = req[r2].header)
    => payHash[r1] = payHash[r2]

C6_SettledOnlyIfSettleSucceeded ==
  \A r \in Sagas :
    execId[r] # 0 =>
      /\ dbPayments[payHash[r]] = "settled" => Called(r, "settle:ok")
      /\ (/\ pc[r] = "done"
          /\ CalledAny(r, {"settle:rejected", "settle:fault"})
          /\ dbPayments[payHash[r]] # "absent")
           => dbPayments[payHash[r]] = "failed"

\* C7: releasePaymentToDeveloper is called only by a request whose settlePayment
\* call succeeded.
C7_ReleaseOnlyAfterSettle ==
  \A r \in Sagas : CalledAny(r, ReleaseEvents) => Called(r, "settle:ok")

\* C8: an invoker result with success=true has an output longer than 10 and
\* shorter than 100000 characters that does not match the error heuristic
\* (shorter than 100 and, ignoring case, starting with "error" or "failed" or
\* containing "exception:" or "api key").
MatchesErrorHeuristic(t) ==
  /\ t.len < 100
  /\ \/ t.head \in {"error", "Error", "ERROR", "failed", "Failed", "FAILED"}
     \/ t.has \cap {"exception:", "Exception:", "EXCEPTION:", "api key", "API key", "Api Key"} # {}

C8_SuccessMeansValid ==
  \A res \in {promptRes, engineRes} :
    (res.kind = "return" /\ res.success) =>
      /\ res.output.len > 10
      /\ res.output.len < 100000
      /\ ~MatchesErrorHeuristic(res.output)

C8_Witness ==
  /\ promptRes.kind = "return" /\ promptRes.success
  /\ engineRes.kind = "return" /\ engineRes.success
  /\ promptRes.output = TxtLen11
  /\ Len(promptRes.calls) = maxRetries

\* C9: a request whose payment proof cannot be decoded, or whose verification
\* the facilitator rejected or faulted on, is answered 402 and has called none
\* of beginExecution, the model, completeExecution, settlePayment and release,
\* and has written no PaymentRecord.
C9_Unverified(r) ==
  \/ Called(r, "decode") /\ DecodeThrows(req[r].header)
  \/ CalledAny(r, {"verify:rejected", "verify:fault"})

C9_UnverifiedStops ==
  \A r \in Sagas :
    C9_Unverified(r) =>
      /\ pc[r] = "done"
      /\ resp[r].status = 402
      /\ ~CalledAny(r, {"begin", "model", "complete", "addPayment", "addPayment:threw"}
                         \cup SettleEvents \cup ReleaseEvents)
      /\ payHash[r] = NoValue
      /\ execId[r] = 0

C9_Witness ==
  \E r1, r2 \in Sagas :
    /\ Called(r1, "decode") /\ DecodeThrows(req[r1].header) /\ resp[r1].status = 402
    /\ Called(r2, "verify:rejected") /\ resp[r2].status = 402
    /\ \A h \in PaymentHashes : dbPayments[h] = "absent"

\* C10: a request with input for a registered agent and no payment header is
\* answered 402 without any facilitator verify call, ledger call or settlement
\* call.
C10_NoProof(r) ==
  /\ req[r].hasInput
  /\ req[r].header = NoValue
  /\ Called(r, "getAgent")
  /\ agentDeveloper # "missing"

C10_NoProofStops ==
  \A r \in Sagas :
    C10_NoProof(r) =>
      /\ pc[r] = "done"
      /\ resp[r].status = 402
      /\ ~CalledAny(r, {"decode", "verify:ok", "verify:rejected", "verify:fault",
                         "begin", "complete"} \cup SettleEvents \cup ReleaseEvents)
      /\ req[r].bodyHash = NoValue <=> Called(r, "challenge")

C10_Witness ==
  \E r1, r2 \in Sagas :
    /\ C10_NoProof(r1) /\ req[r1].bodyHash = NoValue /\ resp[r1].status = 402
    /\ C10_NoProof(r2) /\ req[r2].bodyHash # NoValue /\ resp[r2].status = 402

\* An ActivityLog write of the request threw.
LogWriteThrew(r) ==
  CalledAny(r, {"addPayment:threw", "addExecution:threw", "updateExecution:threw",
                "updatePayment:refunded:threw", "updatePayment:settled:threw",
                "updatePayment:failed:threw"})

LogWrites ==
  {"addPayment", "addExecution", "updateExecution", "updatePayment:refunded",
   "updatePayment:settled", "updatePayment:failed",
   "addPayment:threw", "addExecution:threw", "updateExecution:threw",
   "updatePayment:refunded:threw", "updatePayment:settled:threw",
   "updatePayment:failed:threw"}

\* C11: a request whose beginExecution call returned null is answered 402 and,
\* after that call, invokes no model, calls neither completeExecution nor
\* settlePayment nor release, and makes no ActivityLog write.
C11_BeginReturnedNull(r) ==
  Called(r, "begin") /\ ~Called(r, "begin:threw") /\ execId[r] = 0

C12_RetriesExhausted(r) ==
  /\ result[r].kind = "return"
  /\ Len(result[r].calls) = maxRetries
  /\ \A i \in 1 .. maxRetries : result[r].calls[i].delay = (IF i = 1 THEN 0 ELSE 2000 * i)

C12_ExhaustedStillCloses ==
  \A r \in Sagas :
    C12_RetriesExhausted(r) =>
      /\ ~result[r].success
      /\ ~CalledAny(r, SettleEvents \cup ReleaseEvents)
      /\ pc[r] = "done" =>
           /\ Count(calls[r], "complete") = 1
           /\ ledgerExecs[execId[r]].argOutput = Err503.message
           /\ ledgerExecs[execId[r]].argSuccess = FALSE
           /\ dbPayments[payHash[r]] \notin {"settled", "failed"}
           /\ ~LogWriteThrew(r) => dbPayments[payHash[r]] = "refunded"

C12_Witness ==
  \E r \in Sagas :
    /\ C12_RetriesExhausted(r)
    /\ pc[r] = "done"
    /\ ledgerExecs[execId[r]].closed
    /\ ledgerExecs[execId[r]].argOutput = Err503.message
    /\ dbPayments[payHash[r]] = "refunded"
    /\ resp[r].status = 200

\* C13: for an agent without developer address, or with the null address, no
\* request calls releasePaymentToDeveloper, and a request whose execution and
\* settlement succeeded ends with its PaymentRecord settled (the developer lookup
\* and the ActivityLog writes having gone through).
C13_NoBeneficiary == agentDeveloper \in {NoValue, NullAddress}

C13_NoBeneficiarySettles ==
  \A r \in Sagas :
    C13_NoBeneficiary =>
      /\ ~CalledAny(r, ReleaseEvents)
      /\ (/\ pc[r] = "done"
          /\ result[r].success
          /\ Called(r, "settle:ok")
          /\ ~Called(r, "getAgent:fault")
          /\ ~LogWriteThrew(r))
           => /\ dbPayments[payHash[r]] = "settled"
              /\ resp[r].status = 200
              /\ resp[r].success

C13_Witness ==
  \E r \in Sagas :
    /\ agentDeveloper = NullAddress
    /\ pc[r] = "done"
    /\ result[r].success
    /\ Called(r, "settle:ok")
    /\ Called(r, "updatePayment:settled")
    /\ ~CalledAny(r, ReleaseEvents)
    /\ dbPayments[payHash[r]] = "settled"

\* A transient signal, read as widely as the claim's words allow.
C14_Transient(e) ==
  \/ \E w \in {"503", "429", "500", "overloaded", "quota", "rate limit"} :
       includes(toLowerCase(e.message), w)
  \/ e.code \in {429, 500, 503}
  \/ e.statusCode \in {429, 500, 503}

C14_DataPolicy(e) ==
  includes(e.message, "data policy") /\ includes(e.message, "Free model publication")

\* At most 3 backend calls; a call is followed by another only when it failed
\* with a transient signal and fewer than 3 attempts were made; a failure without
\* transient signal is the last call and the invocation fails.
C14_Bounded(res) ==
  res.kind # "none" =>
    /\ Len(res.calls) <= 3
    /\ \A i \in 1 .. Len(res.calls) - 1 :
         /\ i < 3
         /\ ~invScript[i].ok
         /\ C14_Transient(invScript[i].err)
    /\ \A i \in 1 .. Len(res.calls) :
         (~invScript[i].ok /\ ~C14_Transient(invScript[i].err)) =>
           /\ i = Len(res.calls)
           /\ ~res.success

\* C14 (as stated): one invocation makes at most 3 backend calls, retries only
\* after a transient error and before the third attempt, and rethrows an error
\* without transient signal after the first failing call with no further call.
C14_NonTransientRethrown ==
  /\ C14_Bounded(promptRes)
  /\ C14_Bounded(engineRes)
  /\ \A i \in 1 .. Len(promptRes.calls) :
       (~invScript[i].ok /\ ~C14_Transient(invScript[i].err)) =>
         promptRes.kind = "throw" /\ promptRes.output = invScript[i].err.message

\* C14 (amended): one invocation makes at most 3 backend calls and retries only
\* after a transient error and before the third attempt; an error without
\* transient signal ends the invocation with no further call: it is rethrown,
\* except that executeAgentWithPrompt returns a failed result for a data-policy
\* error of the secondary provider (executeAgent hands the rethrown error's
\* message back as its failed output).
C14_AtMostThreeCalls ==
  /\ C14_Bounded(promptRes)
  /\ C14_Bounded(engineRes)
  /\ \A i \in 1 .. Len(promptRes.calls) :
       (~invScript[i].ok /\ ~C14_Transient(invScript[i].err)) =>
         \/ promptRes.kind = "throw" /\ promptRes.output = invScript[i].err.message
         \/ /\ promptRes.calls[i].provider = "openrouter"
            /\ C14_DataPolicy(invScript[i].err)
            /\ promptRes.kind = "return"
  /\ \A i \in 1 .. Len(engineRes.calls) :
       (~invScript[i].ok /\ ~C14_Transient(invScript[i].err)) =>
         engineRes.output = invScript[i].err.message

C14_Witness ==
  /\ promptRes.kind = "throw"
  /\ Len(promptRes.calls) = 3
  /\ engineRes.kind = "return"
  /\ Len(engineRes.calls) = 1
  /\ invScript[1] = RErr(ErrCode429)
  /\ invScript[3] = RErr(Err503)

\* C15: executeAgentWithPrompt starts on the primary provider when it is
\* configured; a call on the secondary follows a call on the primary only after
\* the first attempt, when that attempt failed with a quota error and the
\* secondary is configured; no call on the primary follows one on the secondary.
C15_QuotaType(e) == includes(toLowerCase(e.message), "quota")

C15_SwitchOnceOnFirstQuota ==
  LET c == promptRes.calls IN
  /\ (Len(c) > 0 /\ invEnv.gemini) => c[1].provider = "gemini"
  /\ \A i \in 1 .. Len(c) - 1 :
       /\ c[i].provider = "openrouter" => c[i + 1].provider = "openrouter"
       /\ (c[i].provider = "gemini" /\ c[i + 1].provider = "openrouter") =>
            /\ i = 1
            /\ ~invScript[1].ok
            /\ C15_QuotaType(invScript[1].err)
            /\ invEnv.openRouter
  /\ \A i \in 1 .. Len(c) - 1 :
       (/\ i > 1
        /\ c[i].provider = "gemini"
        /\ ~invScript[i].ok
        /\ C15_QuotaType(invScript[i].err)) => c[i + 1].provider = "gemini"

C15_Witness ==
  /\ Len(promptRes.calls) = 3
  /\ promptRes.calls[1].provider = "gemini"
  /\ promptRes.calls[2].provider = "openrouter"
  /\ promptRes.calls[3].provider = "openrouter"
  /\ invScript[2] = RErr(ErrQuota)

\* C16: when the last backend call of an invocation completed without error,
\* the invoker returns {output, success} with that output and does not throw; an
\* output that fails validation (the empty one included) gives success=false.
C16_CompletedCall(res) ==
  /\ res.kind # "none"
  /\ Len(res.calls) > 0
  /\ invScript[Len(res.calls)].ok

C16_CompletedCallReturns ==
  \A res \in {promptRes, engineRes} :
    C16_CompletedCall(res) =>
      /\ res.kind = "return"
      /\ res.output.len <= 10 => ~res.success

\* C17: the calls of a request occur in the order verify, beginExecution, data
\* fetches, model invocation, completeExecution, settle, release; a data fetch or
\* a model invocation is made only after beginExecution returned an id.
C17_Stage(event) ==
  CASE event \in {"verify:ok", "verify:rejected", "verify:fault"} -> 1
    [] event \in {"begin", "begin:threw"} -> 2
    [] event = "fetch" -> 3
    [] event = "model" -> 4
    [] event = "complete" -> 5
    [] event \in SettleEvents -> 6
    [] event \in ReleaseEvents -> 7
    [] OTHER -> 0

C17_StepsInOrder ==
  \A r \in Sagas :
    /\ \A i, j \in DOMAIN calls[r] :
         (i < j /\ C17_Stage(calls[r][i]) # 0 /\ C17_Stage(calls[r][j]) # 0)
           => C17_Stage(calls[r][i]) <= C17_Stage(calls[r][j])
    /\ \A j \in DOMAIN calls[r] :
         calls[r][j] \in {"fetch", "model"} =>
           \E i \in 1 .. j - 1 : calls[r][i] = "begin" /\ ~Called(r, "begin:threw")

\* C18: a throwing ActivityLog write does not keep completeExecution or the
\* settlement from running and does not change the response: a request one of
\* whose writes threw still ends 200 with the result of its execution, having
\* called completeExecution and, for a successful result, settlePayment.
C18_LogFailureCaught ==
  \A r \in Sagas :
    (LogWriteThrew(r) /\ pc[r] = "done") =>
      /\ Called(r, "complete")
      /\ result[r].success => CalledAny(r, SettleEvents)
      /\ resp[r].status = 200
      /\ resp[r].success = result[r].success

\* C19: tool augmentation never fails the saga.  Whatever the market-data fetch
\* and the chain-data query meet (a thrown error, an error value, no SDK
\* client), executeBlockchainQuery and fetchMarketData return to their caller
\* instead of throwing, and no error leaves the handler's augmentation block, so
\* the request goes on to the following steps.
C19_AugmentationNeverFails ==
  /\ toolOp = "executeBlockchainQuery" => chainRes.kind = "return"
  /\ toolOp = "fetchMarketData" => marketRes.kind = "return"
  /\ toolOp = "augment" => ~augRes.escaped

\* The market fetch threw inside fetchMarketData, the chain query fell through
\* to an RPC provider that failed, and the block ended with an empty context.
C19_Witness ==
  /\ toolOp = "augment"
  /\ needsMarketData(toolWorld) /\ toolWorld.market = "throw"
  /\ toolClient # "null"
  /\ toolWorld.rpc = "providerError"
  /\ \E i \in 1 .. Len(augRes.chain.tiers) : augRes.chain.tiers[i] = "rpc"
  /\ ~augRes.escaped /\ ~augRes.marketContext /\ ~augRes.chainContext

\* C20: the chain-data fallback chain runs SDK tier, then direct API tier, then
\* node RPC tier; in particular whenever the RPC tier is entered, the direct API
\* tier (queryBlockchainViaAPI) was entered before it.
C20_ApiTierBeforeRpc ==
  toolOp = "executeBlockchainQuery" =>
    \A i \in 1 .. Len(chainRes.tiers) :
      chainRes.tiers[i] = "rpc" => \E j \in 1 .. (i - 1) : chainRes.tiers[j] = "api"

\* C21: the status of a PaymentRecord changes only from pending to settled,
\* refunded or failed (a record is created as pending); a record that is settled
\* or refunded is not changed by any later step of any saga.
C21_StatusOnlyLeavesPending ==
  [][\A h \in PaymentHashes :
       dbPayments'[h] # dbPayments[h] =>
         \/ dbPayments[h] = "absent" /\ dbPayments'[h] = "pending"
         \/ dbPayments[h] = "pending" /\ dbPayments'[h] \in {"settled", "refunded", "failed"}]_vars

\* A record is settled and a second request that carried the same payment hash
\* has run to its end.
C21_Witness ==
  \E r, q \in Sagas :
    /\ r # q
    /\ payHash[r] = payHash[q] /\ payHash[r] # NoValue
    /\ pc[r] = "done" /\ pc[q] = "done"
    /\ Called(r, "updatePayment:settled") /\ Called(q, "begin")
    /\ dbPayments[payHash[r]] = "settled"

\* C22: verifyPayment never throws.  Every error raised while building or
\* initializing the resource server or while calling the facilitator comes back
\* as {valid: false, invalidReason: <message>}, and valid = true is returned
\* only when the facilitator's result has isValid = true.
C22_VerifyNeverThrows ==
  facOp = "verifyPayment" =>
    /\ facRes.kind = "return"
    /\ facRes.valid => facServer.initialized /\ facIn.call \in {"valid", "validNoPayer"}
    /\ ~facRes.valid => facRes.invalidReason # NoValue
    /\ ~facServer.initialized => ~facRes.valid /\ facRes.invalidReason = ReasonInitFailed
    /\ (facServer.initialized /\ facIn.call = "throwsError")
         => ~facRes.valid /\ facRes.invalidReason = ReasonTransport

\* The facilitator call threw on an initialized server and the wrapper returned
\* the invalid result that carries the error's message.
C22_Witness ==
  /\ facOp = "verifyPayment"
  /\ facServer.initialized /\ facIn.call = "throwsError"
  /\ facRes = VerifyReturned(FALSE, ReasonTransport, NoValue)

\* C23: a settlement or release failure after a successful execution leaves the
\* recorded success alone.  completeExecution(id, output, true) was called
\* before settlePayment is attempted and is not called again, settlePayment is
\* attempted at most once, and (the ActivityLog writes having gone through) the
\* response reports success = true.
C23_SettleFailed(r) ==
  CalledAny(r, {"settle:rejected", "settle:fault", "release:failed"})

C23_FailureKeepsSuccess ==
  \A r \in Sagas :
    /\ Count(calls[r], "complete") <= 1
    /\ Cardinality({i \in DOMAIN calls[r] : calls[r][i] \in SettleEvents}) <= 1
    /\ CalledAny(r, SettleEvents) =>
         /\ \E i, j \in DOMAIN calls[r] :
              i < j /\ calls[r][i] = "complete" /\ calls[r][j] \in SettleEvents
         /\ ledgerExecs[execId[r]].completeCalls = 1
         /\ ledgerExecs[execId[r]].argSuccess
         /\ ledgerExecs[execId[r]].closed => ledgerExecs[execId[r]].success
    /\ (pc[r] = "done" /\ C23_SettleFailed(r) /\ ~LogWriteThrew(r))
         => resp[r].status = 200 /\ resp[r].success

\* The facilitator's settle call faulted after a successful, closed execution
\* and the request was answered with success.
C23_Witness ==
  \E r \in Sagas :
    /\ pc[r] = "done"
    /\ Called(r, "settle:fault")
    /\ ledgerExecs[execId[r]].closed /\ ledgerExecs[execId[r]].success
    /\ resp[r].status = 200 /\ resp[r].success

\* C24: ledger counters under any sequence of sagas.  totalExecutions grows by
\* one with each beginExecution that returns an id (also when the model call
\* fails afterwards), successfulExecutions grows only with a completeExecution
\* called with success = true, neither counter ever decreases, and
\* successfulExecutions <= totalExecutions in every reachable state.
C24_CountersMonotonic ==
  /\ [](/\ successfulExecutions <= totalExecutions
        /\ totalExecutions = Cardinality({id \in ExecIds : ledgerExecs[id].opened})
        /\ totalExecutions = Cardinality(usedHashes))
  /\ [][/\ totalExecutions' \in {totalExecutions, totalExecutions + 1}
        /\ successfulExecutions' \in {successfulExecutions, successfulExecutions + 1}
        /\ totalExecutions' # totalExecutions <=>
             \E r \in Sagas : execId[r] = 0 /\ execId'[r] # 0
        /\ successfulExecutions' # successfulExecutions =>
             \E id \in ExecIds :
               /\ ledgerExecs'[id].completeCalls = ledgerExecs[id].completeCalls + 1
               /\ ledgerExecs'[id].argSuccess]_vars

\* Two executions were begun, one closed as failed and one as successful: both
\* count as attempted, one as successful.
C24_Witness ==
  /\ totalExecutions = 2 /\ successfulExecutions = 1
  /\ \E r, q \in Sagas :
       /\ pc[r] = "done" /\ pc[q] = "done"
       /\ FailedResult(r) /\ ledgerExecs[execId[r]].closed
       /\ result[q].success /\ ledgerExecs[execId[q]].closed

\* C25: rate limiting per client key.  Between the creation of a client's
\* counter entry and the entry's resetTime a limiter passes at most max of that
\* client's requests and answers every further one with 429; an entry whose
\* resetTime has passed is replaced, by the client's next request, with a fresh
\* count and a new window.
C25_AtMostMaxPerWindow ==
  /\ [](\A l \in Limiters, c \in ClientIds : passed[l][c] <= max(l))
  /\ [][\A c \in ClientIds :
          (store'[c] # store[c] /\ store'[c].present) =>
            IF store[c].present /\ ~(store[c].resetTime < now)
            THEN /\ store'[c].resetTime = store[c].resetTime
                 /\ store'[c].count = store[c].count + 1
                 /\ limited'.clientId = c
                 /\ limited'.status = (IF store'[c].count > max(limited'.limiter) THEN 429 ELSE 200)
            ELSE /\ store'[c].count = 1
                 /\ store'[c].resetTime = now + windowMs
                 /\ limited'.status = 200]_vars

\* chatRateLimit has passed max requests of one wallet inside one window and has
\* answered the next one with 429.
C25_Witness ==
  /\ limited.limiter = "chatRateLimit"
  /\ limited.clientId = [kind |-> "wallet", id |-> "0xab"]
  /\ limited.status = 429
  /\ passed["chatRateLimit"][limited.clientId] = ChatMax
  /\ store[limited.clientId].count = ChatMax + 1
  /\ store[limited.clientId].resetTime >= now

\* C26: usdToUsdc converts a USD price to the 6-decimal atomic amount by
\* truncation toward zero of priceUsd * 1000000, so a price of a whole number of
\* millionths comes back as that number; for priceUsd = 0.10 the amount in the
\* verification requirement, the settlement requirement and the payment
\* challenge is exactly 100000.
C26_AmountIsTruncatedPrice ==
  facAmount # NoAmount =>
    /\ facAmount = DecimalString(facIn.pricePerExecution)
    /\ facIn.pricePerExecution = 100000 => facAmount.decimal = 100000

\* C27: retry timing of the model invokers as documented.  After a transient
\* failure the waits before the successive retries are 2 s, 4 s and 6 s: the
\* k-th retry (the call after k failures) is made after k * 2000 ms, and there
\* are at most 3 retries.
C27_DocumentedDelays ==
  \A res \in {promptRes, engineRes} :
    /\ Len(res.calls) <= 1 + 3
    /\ \A i \in DOMAIN res.calls :
         res.calls[i].delay = (IF i = 1 THEN 0 ELSE retryDelay * (i - 1))

\* C28: the payment hash is computed deterministically.  Two requests with the
\* same payment header and the same explicit paymentHash value get the same
\* payment hash; an explicit 0x-prefixed value is used unchanged; without one
\* the hash is the decoded authorization's own hash field, or else the digest of
\* the token.
C28_HashDeterministic ==
  /\ \A r1, r2 \in Sagas :
       (/\ payHash[r1] # NoValue /\ payHash[r2] # NoValue
        /\ req[r1].header = req[r2].header
        /\ req[r1].bodyHash = req[r2].bodyHash)
       => payHash[r1] = payHash[r2]
  /\ \A r \in Sagas :
       payHash[r] # NoValue =>
         IF req[r].bodyHash \in {"0xB1", "0xB2"} THEN payHash[r] = req[r].bodyHash
         ELSE IF req[r].header = "tokA" THEN payHash[r] = "0xPA"
         ELSE payHash[r] = keccak256(req[r].header)

\* Two requests with the same token, one with an explicit 0x value and one with
\* a value that lacks the prefix: the first keeps the explicit value, the second
\* gets the token's digest.
C28_Witness ==
  \E r1, r2 \in Sagas :
    /\ req[r1].header = "tokB" /\ req[r2].header = "tokB"
    /\ req[r1].bodyHash = "0xB2" /\ req[r2].bodyHash = "B2"
    /\ payHash[r1] = "0xB2" /\ payHash[r2] = "0xKB"

\* ---------------------------------------------------------------------------
\* Input validation (middleware/validation.ts, lines 136-277 of the listing)
\* ---------------------------------------------------------------------------

\* A string is a sequence of runs: a character and how many times it repeats.
\* Characters without a printable form go by their ASCII names: NUL is \x00,
\* TAB \x09, LF \x0A, VT \x0B, CR \x0D, US \x1F, SP \x20, DEL \x7F, NEL \x85.
Run(c, n) == [ch |-> c, n |-> n]

\* The string with the characters cs, each once.
Text(cs) == [i \in 1 .. Len(cs) |-> Run(cs[i], 1)]

\* Line 173: the longest input accepted.
MaxInputLength == 10000

\* How many pieces an input is put together from.
MaxPieces == 3

Pieces ==
  { Text(<<"<", "s", "c", "r", "i", "p", "t">>),
    Text(<<"<", "S", "c", "r", "i", "p", "t">>),
    Text(<<">">>),
    Text(<<"j", "a", "v", "a", "s", "c", "r", "i", "p", "t", ":">>),
    Text(<<"o", "n">>),
    Text(<<"O", "n">>),
    Text(<<"x">>),
    <<Run("x", MaxInputLength - 1)>>,
    Text(<<"=">>),
    Text(<<"SP", "=">>),
    Text(<<"SP">>), Text(<<"TAB">>), Text(<<"LF">>), Text(<<"VT">>), Text(<<"CR">>),
    Text(<<"NUL">>), Text(<<"US">>), Text(<<"DEL">>), Text(<<"NEL">>) }

RECURSIVE Concats(_)
Concats(k) ==
  IF k = 0 THEN {<<>>}
  ELSE {p \o s : p \in Pieces \cup {<<>>}, s \in Concats(k - 1)}

Strings == Concats(MaxPieces)

\* What req.body.input can be: a string, or something that is not one.
InputValues ==
  {[type |-> "string", text |-> s] : s \in Strings}
    \cup {NotAString, [type |-> "number", text |-> <<>>]}

\* The maxLength arguments tried: the callers' 10000 (lines 142, 275), small
\* ones that cut inside an input, and a negative one.
MaxLengths == {-1, 0, 1, 2, MaxInputLength - 1, MaxInputLength}

\* String.prototype.length
RECURSIVE length(_)
length(s) == IF s = <<>> THEN 0 ELSE Head(s).n + length(Tail(s))

\* Line 147: the class [\x00-\x08\x0B-\x0C\x0E-\x1F\x7F].
ControlClass == {"NUL", "VT", "US", "DEL"}

\* Line 147: input.replace(/[...]/g, "")
replaceControl(s) == SelectSeq(s, LAMBDA r : r.ch \notin ControlClass)

\* String.prototype.substring(0, end): a negative end counts as 0.
RECURSIVE substring(_, _)
substring(s, end) ==
  IF s = <<>> \/ end <= 0 THEN <<>>
  ELSE IF Head(s).n >= end THEN <<Run(Head(s).ch, end)>>
  ELSE <<Head(s)>> \o substring(Tail(s), end - Head(s).n)

\* What String.prototype.trim strips and what \s matches: ECMAScript's
\* WhiteSpace and LineTerminator. NEL belongs to neither.
WhiteSpace == {"TAB", "LF", "VT", "CR", "SP"}

RECURSIVE trimStart(_)
trimStart(s) ==
  IF s # <<>> /\ Head(s).ch \in WhiteSpace THEN trimStart(Tail(s)) ELSE s

RECURSIVE trimEnd(_)
trimEnd(s) ==
  IF s # <<>> /\ s[Len(s)].ch \in WhiteSpace
  THEN trimEnd(SubSeq(s, 1, Len(s) - 1)) ELSE s

\* String.prototype.trim
trim(s) == trimEnd(trimStart(s))

\* Line 150: the text is longer than allowed.
overLimitLate(len, maxLength) == len > maxLength + 1

overLimit(len, maxLength) == len > maxLength

\* Lines 142-159.
sanitizeString(input, maxLength) ==
  IF input.type # "string" THEN <<>>
  ELSE LET sanitized == replaceControl(input.text)
           cut == IF overLimit(length(sanitized), maxLength)
                  THEN substring(sanitized, maxLength)
                  ELSE sanitized
       IN trim(cut)

\* The i flag of the three patterns.
Lower(c) == CASE c = "S" -> "s" [] c = "O" -> "o" [] OTHER -> c

\* \w
WordChars == {"s", "S", "c", "r", "i", "p", "t", "j", "a", "v", "o", "O", "n", "x"}

\* The literal w is found in s from run i on, whatever the case. A run between
\* the first and the last character of w has to be a single character.
LiteralAt(s, i, w) ==
  /\ i + Len(w) - 1 <= Len(s)
  /\ \A k \in 1 .. Len(w) :
       /\ Lower(s[i + k - 1].ch) = w[k]
       /\ (1 < k /\ k < Len(w)) => s[i + k - 1].n = 1

\* Line 179: /<script[^>]*>/i
ScriptTag(s) ==
  \E i \in 1 .. Len(s) :
    /\ LiteralAt(s, i, <<"<", "s", "c", "r", "i", "p", "t">>)
    /\ \E j \in i + 7 .. Len(s) : s[j].ch = ">"

\* Line 180: /javascript:/i
JavascriptUrl(s) ==
  \E i \in 1 .. Len(s) :
    LiteralAt(s, i, <<"j", "a", "v", "a", "s", "c", "r", "i", "p", "t", ":">>)

\* Line 181: /on\w+\s*=/i. Runs i and i+1 are "on", the word runs up to j,
\* whitespace up to k, and run k+1 is the equals sign.
EventHandler(s) ==
  \E i \in 1 .. Len(s) :
    /\ LiteralAt(s, i, <<"o", "n">>)
    /\ \E j \in i + 1 .. Len(s) : \E k \in j .. Len(s) - 1 :
         /\ \A m \in i + 2 .. j : s[m].ch \in WordChars
         /\ j > i + 1 \/ s[i + 1].n > 1
         /\ \A m \in j + 1 .. k : s[m].ch \in WhiteSpace
         /\ s[k + 1].ch = "="

\* Lines 178-188: one of the dangerous patterns matches.
dangerousPatterns(s) == ScriptTag(s) \/ JavascriptUrl(s) \/ EventHandler(s)

ErrNonEmptyString == "Input must be a non-empty string"
ErrCannotBeEmpty == "Input cannot be empty"
ErrTooLong == "Input exceeds maximum length of 10,000 characters"
ErrDangerous == "Input contains potentially dangerous content"
ErrInvalidInput == "Invalid input"

\* Line 173: the input is too long.
exceedsMaximumLate(len) == len > MaxInputLength + 1

exceedsMaximum(len) == len > MaxInputLength

\* Lines 164-191.
validateAgentInput(input) ==
  IF input.type # "string" \/ input.text = <<>>
  THEN [valid |-> FALSE, error |-> ErrNonEmptyString]
  ELSE IF trim(input.text) = <<>>
  THEN [valid |-> FALSE, error |-> ErrCannotBeEmpty]
  ELSE IF exceedsMaximum(length(input.text))
  THEN [valid |-> FALSE, error |-> ErrTooLong]
  ELSE IF dangerousPatterns(input.text)
  THEN [valid |-> FALSE, error |-> ErrDangerous]
  ELSE [valid |-> TRUE, error |-> NoValue]

\* Lines 260-277: the answer, whether next() was called, and req.body.input
\* as the next handler finds it.
validateAgentInputMiddleware(input) ==
  LET validation == validateAgentInput(input)
  IN IF ~validation.valid
     THEN [valid |-> FALSE,
           error |-> IF validation.error # NoValue THEN validation.error
                     ELSE ErrInvalidInput,
           text |-> input.text, status |-> 400, nextCalled |-> FALSE]
     ELSE [valid |-> TRUE, error |-> NoValue,
           text |-> sanitizeString(input, MaxInputLength),
           status |-> 0, nextCalled |-> TRUE]

\* ---------------------------------------------------------------------------
\* One validation function applied once to one input
\* ---------------------------------------------------------------------------

InitValidation ==
  /\ valOp = "none"
  /\ valInput \in InputValues
  /\ valMax = 0
  /\ valRes = NoValidation
  /\ InitRateLimit
  /\ InitFacilitatorIdle
  /\ InitToolsIdle
  /\ InitInvokerIdle
  /\ InitSagaIdle
  /\ agentDeveloper = NullAddress

CallSanitizeString ==
  /\ valOp = "none"
  /\ \E maxLength \in MaxLengths :
       /\ valMax' = maxLength
       /\ valRes' = [NoValidation EXCEPT !.text = sanitizeString(valInput, maxLength)]
  /\ valOp' = "sanitizeString"
  /\ UNCHANGED valInput

CallValidateAgentInput ==
  /\ valOp = "none"
  /\ LET v == validateAgentInput(valInput)
     IN valRes' = [NoValidation EXCEPT !.valid = v.valid, !.error = v.error]
  /\ valOp' = "validateAgentInput"
  /\ UNCHANGED <<valInput, valMax>>

CallMiddleware ==
  /\ valOp = "none"
  /\ valRes' = validateAgentInputMiddleware(valInput)
  /\ valOp' = "validateAgentInputMiddleware"
  /\ UNCHANGED <<valInput, valMax>>

NextValidation ==
  \/ CallSanitizeString /\ UNCHANGED <<invVars, sagaVars, ledgerVars, dbVars, faults, toolVars, facVars, rateVars>>
  \/ CallValidateAgentInput /\ UNCHANGED <<invVars, sagaVars, ledgerVars, dbVars, faults, toolVars, facVars, rateVars>>
  \/ CallMiddleware /\ UNCHANGED <<invVars, sagaVars, ledgerVars, dbVars, faults, toolVars, facVars, rateVars>>

SpecValidation == InitValidation /\ [][NextValidation]_vars

\* The text is made of whitespace only.
C29_WhitespaceOnly(s) == \A i \in 1 .. Len(s) : s[i].ch \in WhiteSpace

\* The input is one the validation has to turn down.
C29_MustReject(input) ==
  \/ input.type # "string"
  \/ input.text = <<>>
  \/ C29_WhitespaceOnly(input.text)
  \/ length(input.text) > 10000
  \/ ScriptTag(input.text) \/ JavascriptUrl(input.text) \/ EventHandler(input.text)

\* C29: validateAgentInput rejects every input that is empty, whitespace-only,
\* longer than 10000 characters, or that contains a script tag, a javascript:
\* URL or an inline event handler, and accepts every other string; the
\* middleware answers 400 and does not call the next handler for every
\* rejected input.
C29_ValidationGate ==
  /\ valOp = "validateAgentInput" =>
       (valRes.valid <=> ~C29_MustReject(valInput))
  /\ (valOp = "validateAgentInputMiddleware" /\ C29_MustReject(valInput)) =>
       (valRes.status = 400 /\ ~valRes.nextCalled)

\* The middleware has turned down an input of 10001 characters with 400, and
\* the next handler was not called.
C29_Witness ==
  /\ valOp = "validateAgentInputMiddleware"
  /\ valInput.type = "string"
  /\ length(valInput.text) = 10001
  /\ ~dangerousPatterns(valInput.text)
  /\ valRes.status = 400
  /\ valRes.error = ErrTooLong
  /\ ~valRes.nextCalled

\* The characters of a are characters of b in the same order: every run of a
\* is taken from a run of b of its own, further right than the one before.
RECURSIVE C30_KeepsOrder(_, _)
C30_KeepsOrder(a, b) ==
  IF a = <<>> THEN TRUE
  ELSE IF b = <<>> THEN FALSE
  ELSE IF Head(a).ch = Head(b).ch /\ Head(a).n <= Head(b).n
  THEN C30_KeepsOrder(Tail(a), Tail(b))
  ELSE C30_KeepsOrder(a, Tail(b))

\* The null byte and the ASCII control characters other than tab, line feed
\* and carriage return.
C30_Forbidden == {"NUL", "VT", "US", "DEL"}

C30_Clean(out, input) ==
  /\ \A i \in 1 .. Len(out) : out[i].ch \notin C30_Forbidden
  /\ C30_KeepsOrder(out, input)

C31_ChainData ==
  {TxtSdkBalance, TxtSdkStatus, TxtSdkAddress, TxtRpcBalance, TxtRpcAddress, TxtAgentText}

\* C31: a data section of a category is in the context sent to the model only
\* when some tier of that category returned data, in the chat handler and in
\* executeAgent alike: no market section without a ticker, no chain section for
\* a missing address or for an error or unavailable message.
C31_SnippetOnlyForData ==
  toolOp \in {"augment", "augmentEngine"} =>
    /\ augRes.marketContext => toolWorld.market = "ticker"
    /\ augRes.chainContext => augRes.chain.text \in C31_ChainData

\* C32: in the handler of part_004 every beginExecution that returned an
\* execution id is followed by exactly one completeExecution call before the
\* request ends, also when executeAgentWithPrompt throws or an ActivityLog
\* write throws.
C32_BeginThenOneComplete ==
  \A r \in Sagas :
    (pc[r] = "done" /\ execId[r] # 0) => ledgerExecs[execId[r]].completeCalls = 1

\* C33: the ActivityLog never contradicts the ledger call of the same
\* execution: the success value in the execution record equals the one passed
\* to completeExecution and the one in the 200 response, and the record is
\* marked verified only when completeExecution went through.
C33_LogAgreesWithLedger ==
  \A r \in Sagas :
    execId[r] # 0 =>
      LET id == execId[r] IN
      /\ (dbExecutions[id].present /\ ledgerExecs[id].completeCalls > 0) =>
           dbExecutions[id].success = ledgerExecs[id].argSuccess
      /\ resp[r].status = 200 =>
           /\ ledgerExecs[id].completeCalls > 0
           /\ resp[r].success = ledgerExecs[id].argSuccess
           /\ dbExecutions[id].present => resp[r].success = dbExecutions[id].success
      /\ dbExecutions[id].verified => ledgerExecs[id].closed

\* Two requests have ended with 200: one whose output failed validation, logged
\* as failed and verified, and one that succeeded whose completeExecution call
\* failed, logged as a success and not verified.
C33_Witness ==
  \E r, q \in Sagas :
    /\ resp[r].status = 200 /\ ~resp[r].success
    /\ dbExecutions[execId[r]].present /\ ~dbExecutions[execId[r]].success
    /\ dbExecutions[execId[r]].verified /\ ~ledgerExecs[execId[r]].argSuccess
    /\ resp[q].status = 200 /\ resp[q].success
    /\ dbExecutions[execId[q]].present /\ dbExecutions[execId[q]].success
    /\ ~dbExecutions[execId[q]].verified /\ ~ledgerExecs[execId[q]].closed

\* C34: the pre-configured limiters are independent: a limiter turns a client's
\* request down only after it has itself passed max requests of that client in
\* the window, whatever the client sent through the other limiters.
C34_LimitersIndependent ==
  limited.status = 429 =>
    passed[limited.limiter][limited.clientId] = max(limited.limiter)

\* C35: a request turned down by the limiter leaves the client's resetTime as it
\* was (only count grows), and the client's first request after resetTime is
\* passed on with a new window, however many requests were turned down before.
C35_RejectedKeepsWindow ==
  [][\A c \in ClientIds :
       (store'[c] # store[c] /\ store'[c].present) =>
         /\ limited'.status = 429 =>
              /\ store[c].present
              /\ store'[c].resetTime = store[c].resetTime
              /\ store'[c].count = store[c].count + 1
         /\ (store[c].present /\ store[c].resetTime < now) =>
              /\ limited'.status = 200
              /\ store'[c].resetTime = now + windowMs]_vars

\* A client that was over the limit when its window ended has sent its next
\* request after resetTime and was passed on with a new window.
C35_Witness ==
  /\ limited.status = 200
  /\ limited.created
  /\ limited.wasLimited
  /\ ~limited.afterSweep
  /\ store[limited.clientId].count = 1
  /\ store[limited.clientId].resetTime = now + windowMs

C36_RateHeaders ==
  {"X-RateLimit-Limit", "X-RateLimit-Remaining", "X-RateLimit-Reset", "Retry-After"}

\* C36: every 429 response of the limiter carries X-RateLimit-Limit,
\* X-RateLimit-Remaining, X-RateLimit-Reset and Retry-After, which are set
\* before it is sent, and X-RateLimit-Remaining is never negative.
C36_RejectCarriesHeaders ==
  /\ limited.status = 429 =>
       /\ limited.res.sent /\ limited.res.status = 429
       /\ C36_RateHeaders \subseteq limited.res.headers
       /\ ~limited.res.threw
  /\ "X-RateLimit-Remaining" \in limited.res.headers => limited.res.remaining >= 0

\* C37: the sweep removes only entries whose resetTime has passed, and every
\* request gets the answer it gets from the table that is never swept.
C37_SweepChangesNoDecision ==
  /\ [](/\ limited.status = limited.withoutSweep
        /\ \A c \in ClientIds :
             /\ store[c].present => store[c] = unswept[c]
             /\ ~store[c].present => expired(unswept[c], now))
  /\ [][\A c \in ClientIds :
          (store[c].present /\ ~store'[c].present) => store[c].resetTime < now]_vars

\* A client that was over the limit had its entry swept after the window, and
\* its next request was passed on, as it is without the sweep.
C37_Witness ==
  /\ limited.afterSweep
  /\ limited.status = 200
  /\ limited.withoutSweep = 200
  /\ unswept[limited.clientId] = store[limited.clientId]
  /\ \E c \in ClientIds :
       /\ c # limited.clientId
       /\ ~store[c].present
       /\ unswept[c].present /\ unswept[c].count > ChatMax

\* C38: within one call of executeBlockchainQuery each tier (Developer Platform
\* SDK, AI Agent SDK, direct RPC) is entered at most once, whatever fails and
\* whether or not a client is supplied.
C38_EachTierAtMostOnce ==
  toolOp = "executeBlockchainQuery" =>
    \A i, j \in 1 .. Len(chainRes.tiers) :
      i # j => chainRes.tiers[i] # chainRes.tiers[j]

\* ---------------------------------------------------------------------------
\* C39: when several requests are inside getResourceServer before
\* initialization has completed, one x402ResourceServer is constructed,
\* initialize() is invoked once, every one of them awaits that one
\* initialization, and none is handed the server before it is initialized.
\* ---------------------------------------------------------------------------
C39_Waiting == {c \in Callers : caller[c] = "waiting"}

C39_InitializedOnce ==
  /\ facServer.constructions <= 1
  /\ facServer.initializeCalls <= 1
  /\ C39_Waiting # {} =>
       /\ facServer.constructions = 1
       /\ facServer.initializeCalls = 1
       /\ facServer.promise \in {"pending", "resolved", "rejected"}
  /\ \A c \in Callers : caller[c] = "returned" =>
       facServer.initialized /\ facServer.promise = "resolved"

\* Every request is waiting on the initialization that the first one started.
C39_Witness ==
  /\ C39_Waiting = Callers
  /\ facServer.promise = "pending"
  /\ facServer.initializeCalls = 1

\* ---------------------------------------------------------------------------
\* C40: once initialize() has failed, it is never invoked again, and every
\* later verifyPayment returns valid=false and every later settlePayment
\* returns success=false, whatever the facilitator would answer by then.
\* ---------------------------------------------------------------------------
C40_Failed == facServer.promise = "rejected"

C40_FailureIsPermanent ==
  [][C40_Failed =>
       /\ facServer' = facServer
       /\ facOp' = "verifyPayment" => facRes'.kind = "return" /\ ~facRes'.valid
       /\ facOp' = "settlePayment" => facRes'.kind = "return" /\ ~facRes'.success]_vars

\* A verification after the failure, with a facilitator that would initialize
\* and would find the payment valid, is answered valid=false.
C40_Witness ==
  /\ C40_Failed
  /\ facServer.initializeCalls = 1
  /\ facOp = "verifyPayment"
  /\ facIn.init = "ok" /\ facIn.call = "valid"
  /\ ~facRes.valid

====
